---- MODULE Spec2Model ----
(***************************************************************************)
(* Model of the screenplay parser (parseScreenplay and its line            *)
(* predicates).  A line is a sequence of one-character strings, so that    *)
(* the regular expressions, trim() and toUpperCase() of the source are     *)
(* computed character by character.                                        *)
(***************************************************************************)
EXTENDS Integers, Sequences, FiniteSets, TLC

(***************************************************************************)
(* Characters and string helpers (JavaScript String semantics)             *)
(***************************************************************************)
UpperAZ == <<"A","B","C","D","E","F","G","H","I","J","K","L","M",
             "N","O","P","Q","R","S","T","U","V","W","X","Y","Z">>

LowerAZ == <<"a","b","c","d","e","f","g","h","i","j","k","l","m",
             "n","o","p","q","r","s","t","u","v","w","x","y","z">>

Digits == {"0","1","2","3","4","5","6","7","8","9"}

Range(f) == {f[i] : i \in DOMAIN f}

UpperSet == Range(UpperAZ)

LowerSet == Range(LowerAZ)

IsUpper(c) == c \in UpperSet

\* \s of the regular expressions and the whitespace trim() removes
IsSpace(c) == c \in {" ", "\t", "\n"}

Min(a, b) == IF a < b THEN a ELSE b

\* String.prototype.toUpperCase / toLowerCase, one character
UpperChar(c) ==
    IF c \in LowerSet
    THEN UpperAZ[CHOOSE i \in DOMAIN LowerAZ : LowerAZ[i] = c]
    ELSE c

LowerChar(c) ==
    IF c \in UpperSet
    THEN LowerAZ[CHOOSE i \in DOMAIN UpperAZ : UpperAZ[i] = c]
    ELSE c

RECURSIVE UpperFrom(_, _)
UpperFrom(s, k) ==
    IF k > Len(s) THEN <<>> ELSE <<UpperChar(s[k])>> \o UpperFrom(s, k + 1)

RECURSIVE LowerFrom(_, _)
LowerFrom(s, k) ==
    IF k > Len(s) THEN <<>> ELSE <<LowerChar(s[k])>> \o LowerFrom(s, k + 1)

toUpperCase(s) == UpperFrom(s, 1)

toLowerCase(s) == LowerFrom(s, 1)

\* String.prototype.trim: drop leading and trailing whitespace
RECURSIVE trimStart(_)
trimStart(s) ==
    IF Len(s) > 0 /\ IsSpace(s[1]) THEN trimStart(Tail(s)) ELSE s

RECURSIVE trimEnd(_)
trimEnd(s) ==
    IF Len(s) > 0 /\ IsSpace(s[Len(s)])
    THEN trimEnd(SubSeq(s, 1, Len(s) - 1))
    ELSE s

trim(s) == trimEnd(trimStart(s))

startsWith(s, w) == Len(w) <= Len(s) /\ SubSeq(s, 1, Len(w)) = w

endsWith(s, w) ==
    Len(w) <= Len(s) /\ SubSeq(s, Len(s) - Len(w) + 1, Len(s)) = w

(***************************************************************************)
(* Input lines.  The reader hands over lines whose trailing whitespace is  *)
(* stripped and whose leading whitespace is kept.                          *)
(***************************************************************************)
PAGE_BREAK == <<"_","_","_","P","A","G","E","_","B","R","E","A","K","_","_","_">>

BlankLine == <<>>
SceneLine == <<"I","N","T","."," ","A">>
SceneToLine == <<"I","N","T"," ","T","O",":">>
CharacterLine == <<"J","O","E">>
ParenLine == <<"(","x",")">>
PlainLine == <<" ","H","i",".">>
TransitionLine == <<"C","U","T"," ","T","O",":">>
NoteLine == <<"[","[","n","]","]">>
PageNumberLine == <<"1","2",".">>

Lines == { BlankLine, SceneLine, SceneToLine, CharacterLine, ParenLine,
           PlainLine, TransitionLine, NoteLine, PageNumberLine, PAGE_BREAK }

\* lines of a title page: free text and field lines
TitleText == <<"M","y">>
SubtitleText == <<"P","i","c">>
TitleField == <<"T","i","t","l","e",":"," ","T">>
AuthorField == <<"A","u","t","h","o","r",":"," ","J">>

TitleLines == { TitleText, SubtitleText, TitleField, AuthorField }

\* lines on which strict mode and the default mode part ways: a common
\* all-caps action word, a cue of 41 characters, a heading of 81 characters,
\* a heading that ends in a comma, a transition keyword in lower case
LaterLine == <<"L","A","T","E","R">>
LongCueLine == [i \in 1..41 |-> "A"]
LongSceneLine == SceneLine \o [i \in 1..75 |-> "A"]
SceneCommaLine == SceneLine \o <<",">>
LowerTransitionLine == <<"g","o"," ","t","o",":">>

PredicateLines ==
    { LaterLine, LongCueLine, LongSceneLine, SceneCommaLine, LowerTransitionLine }

\* every string a pattern is tested on: the lines above, as given and trimmed
KnownLines ==
    Lines \cup TitleLines \cup PredicateLines \cup {trim(l) : l \in Lines}

\* line.trim() of an input line
TrimTable == <<>> @@ [l \in KnownLines |-> trim(l)]

\* line.toUpperCase() of an input line
UpperTable == <<>> @@ [l \in KnownLines |-> toUpperCase(l)]

(***************************************************************************)
(* A small regular-expression matcher.  A position is the index of the     *)
(* next character to read; each combinator maps the set of positions a     *)
(* match may have reached to the set it may reach after one more piece.    *)
(***************************************************************************)
\* the literal w
Lit(s, P, w) ==
    {p + Len(w) : p \in {q \in P : q + Len(w) - 1 <= Len(s)
                                   /\ SubSeq(s, q, q + Len(w) - 1) = w}}

\* w?
Opt(s, P, w) == P \cup Lit(s, P, w)

\* membership of a character in a character class of the expressions
InClass(c, cls) ==
    CASE cls = "\\s" -> IsSpace(c)
      [] cls = "\\d" -> c \in Digits
      [] cls = "[A-Z\\s]" -> IsUpper(c) \/ IsSpace(c)
      [] cls = "[^)]" -> c # ")"
      [] cls = "." -> c # "\n"

\* one or more characters of the class cls
Plus(s, P, cls) ==
    {e \in 2..(Len(s) + 1) :
        \E p \in P : p < e /\ \A k \in p..(e - 1) : InClass(s[k], cls)}

\* zero or more characters of the class cls
Star(s, P, cls) == P \cup Plus(s, P, cls)

\* $ : the match has consumed the whole string
AtEnd(s, P) == (Len(s) + 1) \in P

(***************************************************************************)
(* Regular expressions for element detection                               *)
(***************************************************************************)
\* /^(INT\.?|EXT\.?|INT\.?\/EXT\.?|I\.?\/E\.?|EST\.?|INT\.?\s+\/\s+EXT\.?
\*   |EXT\.?\s+\/\s+INT\.?)\s+/i
MatchSceneHeading(line) ==
    LET s == toUpperCase(line)       \* the i flag
        INT == Opt(s, Lit(s, {1}, <<"I","N","T">>), <<".">>)
        EXT == Opt(s, Lit(s, {1}, <<"E","X","T">>), <<".">>)
        EST == Opt(s, Lit(s, {1}, <<"E","S","T">>), <<".">>)
        INT_EXT == Opt(s, Lit(s, Lit(s, INT, <<"/">>), <<"E","X","T">>), <<".">>)
        I_E == Lit(s, Lit(s, Opt(s, Lit(s, {1}, <<"I">>), <<".">>), <<"/">>),
                   <<"E">>)
        I_E_dot == Opt(s, I_E, <<".">>)
        INT_sp_EXT ==
            Opt(s, Lit(s, Plus(s, Lit(s, Plus(s, INT, "\\s"), <<"/">>),
                               "\\s"), <<"E","X","T">>), <<".">>)
        EXT_sp_INT ==
            Opt(s, Lit(s, Plus(s, Lit(s, Plus(s, EXT, "\\s"), <<"/">>),
                               "\\s"), <<"I","N","T">>), <<".">>)
        prefix == INT \cup EXT \cup INT_EXT \cup I_E_dot \cup EST
                      \cup INT_sp_EXT \cup EXT_sp_INT
    IN  Plus(s, prefix, "\\s") # {}

IsCharacterChar(c) ==
    IsUpper(c) \/ IsSpace(c) \/ c \in Digits \/ c \in {"-", "'", "(", ")", "."}

\* /^[A-Z][A-Z\s\-'0-9().]*$/
MatchCharacter(s) ==
    /\ Len(s) >= 1
    /\ IsUpper(s[1])
    /\ \A i \in 2..Len(s) : IsCharacterChar(s[i])

\* /^([A-Z\s]+TO:|FADE (IN|OUT|TO BLACK|TO WHITE):|CUT TO:|DISSOLVE TO:
\*    |MATCH CUT TO:)$/
MatchTransition(s) ==
    LET anyTo == Lit(s, Plus(s, {1}, "[A-Z\\s]"), <<"T","O",":">>)
        fade == Lit(s, {1}, <<"F","A","D","E"," ">>)
        fadeX == Lit(s, fade, <<"I","N">>)
                 \cup Lit(s, fade, <<"O","U","T">>)
                 \cup Lit(s, fade, <<"T","O"," ","B","L","A","C","K">>)
                 \cup Lit(s, fade, <<"T","O"," ","W","H","I","T","E">>)
        fadeColon == Lit(s, fadeX, <<":">>)
        cut == Lit(s, {1}, <<"C","U","T"," ","T","O",":">>)
        dissolve == Lit(s, {1}, <<"D","I","S","S","O","L","V","E"," ","T","O",":">>)
        match == Lit(s, {1}, <<"M","A","T","C","H"," ","C","U","T"," ","T","O",":">>)
    IN  AtEnd(s, anyTo \cup fadeColon \cup cut \cup dissolve \cup match)

\* /^\([^)]+\)$/
MatchParenthetical(s) ==
    AtEnd(s, Lit(s, Plus(s, Lit(s, {1}, <<"(">>), "[^)]"), <<")">>))

\* /^\[\[.*\]\]$/
MatchNote(s) ==
    AtEnd(s, Lit(s, Star(s, Lit(s, {1}, <<"[","[">>), "."), <<"]","]">>))

(***************************************************************************)
(* The compiled patterns: each expression is matched once against every    *)
(* known line and X.test(line) looks the result up.                        *)
(***************************************************************************)
MatchSceneHeadingTable == <<>> @@ [l \in KnownLines |-> MatchSceneHeading(l)]

SCENE_HEADING_REGEX(line) == MatchSceneHeadingTable[line]

MatchCharacterTable == <<>> @@ [l \in KnownLines |-> MatchCharacter(l)]

CHARACTER_REGEX(line) == MatchCharacterTable[line]

MatchTransitionTable == <<>> @@ [l \in KnownLines |-> MatchTransition(l)]

TRANSITION_REGEX(line) == MatchTransitionTable[line]

MatchParentheticalTable == <<>> @@ [l \in KnownLines |-> MatchParenthetical(l)]

PARENTHETICAL_REGEX(line) == MatchParentheticalTable[line]

MatchNoteTable == <<>> @@ [l \in KnownLines |-> MatchNote(l)]

NOTE_REGEX(line) == MatchNoteTable[line]

\* Common transition keywords
TRANSITION_KEYWORDS ==
    << <<"T","O",":">>,
       <<"F","A","D","E"," ","I","N",":">>,
       <<"F","A","D","E"," ","O","U","T",":">>,
       <<"F","A","D","E"," ","T","O"," ","B","L","A","C","K",":">>,
       <<"F","A","D","E"," ","T","O"," ","W","H","I","T","E",":">>,
       <<"C","U","T"," ","T","O",":">>,
       <<"D","I","S","S","O","L","V","E"," ","T","O",":">>,
       <<"M","A","T","C","H"," ","C","U","T"," ","T","O",":">>,
       <<"S","M","A","S","H"," ","C","U","T"," ","T","O",":">>,
       <<"J","U","M","P"," ","C","U","T"," ","T","O",":">> >>

(***************************************************************************)
(* Line predicates                                                         *)
(***************************************************************************)
\* /[,;:!?]/ on the last character
IsRejectedEnding(c) == c \in {",", ";", ":", "!", "?"}

\* the predicate with its strict tests applied in the default mode instead
isSceneHeadingStrictByDefault(line, strictMode) ==
    IF ~SCENE_HEADING_REGEX(line) THEN FALSE
    ELSE IF ~strictMode /\ Len(line) > 80 THEN FALSE
    ELSE IF ~strictMode /\ Len(line) > 0 /\ IsRejectedEnding(line[Len(line)])
         THEN FALSE
    ELSE TRUE

isSceneHeading(line, strictMode) ==
    IF ~SCENE_HEADING_REGEX(line) THEN FALSE
    ELSE IF strictMode /\ Len(line) > 80 THEN FALSE
    ELSE IF strictMode /\ Len(line) > 0 /\ IsRejectedEnding(line[Len(line)])
         THEN FALSE
    ELSE TRUE

commonActionWords ==
    { <<"F","A","D","E"," ","I","N">>,
      <<"F","A","D","E"," ","O","U","T">>,
      <<"T","H","E"," ","E","N","D">>,
      <<"C","O","N","T","I","N","U","E","D">>,
      <<"B","A","C","K"," ","T","O">>,
      <<"L","A","T","E","R">>,
      <<"M","E","A","N","W","H","I","L","E">> }

\* the predicate without the strict-mode test of the previous kind
isCharacterNameAnyPrevious(line, st, strictMode) ==
    IF ~CHARACTER_REGEX(line) THEN FALSE
    ELSE IF TRANSITION_REGEX(line) THEN FALSE
    ELSE IF SCENE_HEADING_REGEX(line) THEN FALSE
    ELSE IF Len(line) < 2 THEN FALSE
    ELSE IF strictMode /\ Len(line) > 40 THEN FALSE
    ELSE IF strictMode /\ line \in commonActionWords THEN FALSE
    ELSE TRUE

\* st is the parser state; only currentElementType is read
isCharacterName(line, st, strictMode) ==
    IF ~CHARACTER_REGEX(line) THEN FALSE
    ELSE IF TRANSITION_REGEX(line) THEN FALSE
    ELSE IF SCENE_HEADING_REGEX(line) THEN FALSE
    ELSE IF Len(line) < 2 THEN FALSE
    ELSE IF strictMode /\ Len(line) > 40 THEN FALSE
    ELSE IF strictMode /\ st.currentElementType = "character" THEN FALSE
    ELSE IF strictMode /\ line \in commonActionWords THEN FALSE
    ELSE TRUE

isTransition(line, strictMode) ==
    IF TRANSITION_REGEX(line) THEN TRUE
    ELSE IF ~strictMode
         THEN LET upperLine == UpperTable[line]
              IN  \E k \in DOMAIN TRANSITION_KEYWORDS :
                     \/ upperLine = TRANSITION_KEYWORDS[k]
                     \/ endsWith(upperLine, TRANSITION_KEYWORDS[k])
    ELSE FALSE

\* /^\d+\.?$/
MatchBareNumber(s) == AtEnd(s, Opt(s, Plus(s, {1}, "\\d"), <<".">>))

\* /^(page\s+)?\d+(\s+of\s+\d+)?$/i
MatchPageOf(line) ==
    LET s == toLowerCase(line)      \* the i flag
        page == {1} \cup Plus(s, Lit(s, {1}, <<"p","a","g","e">>), "\\s")
        n == Plus(s, page, "\\d")
        ofM == Plus(s, Plus(s, Lit(s, Plus(s, n, "\\s"), <<"o","f">>), "\\s"),
                    "\\d")
    IN  AtEnd(s, n \cup ofM)

\* /^(\d+\.|\(\d+\)|\[\d+\])$/
MatchNumbered(s) ==
    LET dotted == Lit(s, Plus(s, {1}, "\\d"), <<".">>)
        round == Lit(s, Plus(s, Lit(s, {1}, <<"(">>), "\\d"), <<")">>)
        square == Lit(s, Plus(s, Lit(s, {1}, <<"[">>), "\\d"), <<"]">>)
    IN  AtEnd(s, dotted \cup round \cup square)

MatchBareNumberTable == <<>> @@ [l \in KnownLines |-> MatchBareNumber(l)]

MatchPageOfTable == <<>> @@ [l \in KnownLines |-> MatchPageOf(l)]

MatchNumberedTable == <<>> @@ [l \in KnownLines |-> MatchNumbered(l)]

isPageNumber(line) ==
    IF MatchBareNumberTable[line] THEN TRUE
    ELSE IF MatchPageOfTable[line] THEN TRUE
    ELSE IF MatchNumberedTable[line] THEN TRUE
    ELSE FALSE

\* s.replace(/\s*\([^)]+\)\s*$/, ''): the match is the leftmost position from
\* which the rest of the string matches; it is cut off
StripExtension(s) ==
    LET matchesFrom(i) ==
            AtEnd(s, Star(s, Lit(s, Plus(s, Lit(s, Star(s, {i}, "\\s"), <<"(">>),
                                        "[^)]"), <<")">>), "\\s"))
        starts == {i \in 1..Len(s) : matchesFrom(i)}
    IN  IF starts = {} THEN s
        ELSE SubSeq(s, 1, (CHOOSE a \in starts : \A b \in starts : a <= b) - 1)

StripExtensionTable == <<>> @@ [l \in KnownLines |-> StripExtension(l)]

\* const cleanName = trimmedLine.replace(...).trim()
cleanName(trimmedLine) == trim(StripExtensionTable[trimmedLine])

\* Bounds of the explored inputs: any MaxLines lines, or a leading block of
\* FillLen plain lines (which fills the title-page buffer) followed by any
\* MaxTail lines, or by MaxLongTail lines of the kinds in LongTailLines.
MaxLines == 3
FillLen == 14
MaxTail == 2
MaxLongTail == 3

\* the title-page line budget (state.titlePageLines.length >= 15)
TitlePageCap == 15

VARIABLES
    opts,        \* the resolved options read by the loop
    allLines,    \* the lines of allLines consumed so far (i = Len(allLines))
    state,       \* ParserState
    elements,    \* the elements pushed so far
    document,    \* the returned document, once built
    pc,          \* "main": in the line loop; "done": parseScreenplay returned
    origin,      \* history: origin[j] tells which line elements[j] came from
    bufOrigin,   \* history: the same for the entries of state.titlePageLines
    trace,       \* history: per consumed line, the state it met and its outcome
    pages,       \* pdfContent.pages, where the run starts from pages
    pageIndex,   \* the pages already copied into allLines
    earlier,     \* the document returned by an earlier parse of the same input
    output,      \* the string returned by generateFountain
    readResult,  \* how readPDF settled, once it has
    result,      \* the ConversionResult convertPDFToFountain resolved to
    calls,       \* history: the collaborators convertPDFToFountain has called
    runs,        \* the locals of parseScreenplay invocations that run side by side
    verdicts,    \* what the three line predicates answered, per strictMode
    reader,      \* the frame of a readPDF call
    batch        \* the frame of a batchCommand call and the files it wrote

\* the variables outside parseScreenplay and generateFountain
otherVars == <<verdicts, reader, batch>>

\* the variables of convertPDFToFountain and of side-by-side invocations
convVars == <<readResult, result, calls, runs, otherVars>>

\* what the line loop does not touch
auxVars == <<pages, pageIndex, earlier, output, convVars>>

vars == <<opts, allLines, state, elements, document, pc, origin, bufOrigin, trace,
          pages, pageIndex, earlier, output, readResult, result, calls, runs,
          verdicts, reader, batch>>

None == <<>>
Some(x) == <<x>>

InitialState ==
    [ currentElementType |-> "null",
      lastCharacterName |-> None,
      expectingDialogue |-> FALSE,
      inTitlePage |-> TRUE,
      titlePageLines |-> <<>>,
      sceneCount |-> 0,
      warnings |-> <<>> ]

Init ==
    /\ opts \in [ detectSceneHeadings : BOOLEAN,
                   detectCharacterNames : BOOLEAN,
                   strictMode : BOOLEAN ]
    /\ allLines = <<>>
    /\ state = InitialState
    /\ elements = <<>>
    /\ document = None
    /\ pc = "main"
    /\ origin = <<>>
    /\ bufOrigin = <<>>
    /\ trace = <<>>
    /\ pages = <<>>
    /\ pageIndex = 0
    /\ earlier = None
    /\ output = None
    /\ readResult = None
    /\ result = None
    /\ calls = <<>>
    /\ runs = <<>>
    /\ verdicts = <<>>
    /\ reader = <<>>
    /\ batch = <<>>

(***************************************************************************)
(* One iteration of the line loop.  The loop's data is threaded as a       *)
(* record r = [state, elements, origin, bufOrigin]; n is the index of the  *)
(* line being processed (history only).                                    *)
(***************************************************************************)
\* elements.push({ type, text }); the history entry records the line the
\* element came from and the expectingDialogue flag that line met
Push(r, type, text, n) ==
    [r EXCEPT !.elements = Append(@, [type |-> type, text |-> text]),
              !.origin = Append(@, [line |-> n,
                                    expecting |-> r.state.expectingDialogue])]

\* the flush with its loop left out
FlushDropsLines(r, k) == r

\* for (const titleLine of state.titlePageLines) elements.push(action ...)
RECURSIVE FlushTitleLines(_, _)
FlushTitleLines(r, k) ==
    IF k > Len(r.state.titlePageLines) THEN r
    ELSE FlushTitleLines(
             Push(r, "action", r.state.titlePageLines[k], r.bufOrigin[k]),
             k + 1)

\* the dialogue block whose dialogue branch leaves currentElementType alone
DetectDialogueBlockQuietDialogue(r, trimmedLine, o, n) ==
    IF r.state.expectingDialogue /\ PARENTHETICAL_REGEX(trimmedLine)
    THEN Push(r, "parenthetical", trimmedLine, n)
    ELSE IF o.detectCharacterNames
            /\ isCharacterName(trimmedLine, r.state, o.strictMode)
    THEN [Push(r, "character", trimmedLine, n) EXCEPT
             !.state.lastCharacterName = Some(cleanName(trimmedLine)),
             !.state.expectingDialogue = TRUE,
             !.state.currentElementType = "character"]
    ELSE IF r.state.expectingDialogue
    THEN Push(r, "dialogue", trimmedLine, n)
    ELSE [Push(r, "action", trimmedLine, n) EXCEPT
             !.state.currentElementType = "action"]

\* the dialogue block with the parenthetical test not tied to expectingDialogue
DetectDialogueBlockAnyParen(r, trimmedLine, o, n) ==
    IF PARENTHETICAL_REGEX(trimmedLine)
    THEN Push(r, "parenthetical", trimmedLine, n)
    ELSE IF o.detectCharacterNames
            /\ isCharacterName(trimmedLine, r.state, o.strictMode)
    THEN [Push(r, "character", trimmedLine, n) EXCEPT
             !.state.lastCharacterName = Some(cleanName(trimmedLine)),
             !.state.expectingDialogue = TRUE,
             !.state.currentElementType = "character"]
    ELSE IF r.state.expectingDialogue
    THEN [Push(r, "dialogue", trimmedLine, n) EXCEPT
             !.state.currentElementType = "dialogue"]
    ELSE [Push(r, "action", trimmedLine, n) EXCEPT
             !.state.currentElementType = "action"]

\* parenthetical, character name, dialogue, and the default, action
DetectDialogueBlock(r, trimmedLine, o, n) ==
    IF r.state.expectingDialogue /\ PARENTHETICAL_REGEX(trimmedLine)
    THEN Push(r, "parenthetical", trimmedLine, n)
    ELSE IF o.detectCharacterNames
            /\ isCharacterName(trimmedLine, r.state, o.strictMode)
    THEN [Push(r, "character", trimmedLine, n) EXCEPT
             !.state.lastCharacterName = Some(cleanName(trimmedLine)),
             !.state.expectingDialogue = TRUE,
             !.state.currentElementType = "character"]
    ELSE IF r.state.expectingDialogue
    THEN [Push(r, "dialogue", trimmedLine, n) EXCEPT
             !.state.currentElementType = "dialogue"]
    ELSE [Push(r, "action", trimmedLine, n) EXCEPT
             !.state.currentElementType = "action"]

\* the same checks with the transition test moved before the scene heading test
ClassifyTransitionFirst(r, trimmedLine, o, n) ==
    IF isTransition(trimmedLine, o.strictMode)
    THEN [Push(r, "transition", trimmedLine, n) EXCEPT
             !.state.expectingDialogue = FALSE,
             !.state.currentElementType = "transition"]
    ELSE IF o.detectSceneHeadings /\ isSceneHeading(trimmedLine, o.strictMode)
    THEN [Push(r, "scene_heading", trimmedLine, n) EXCEPT
             !.state.sceneCount = @ + 1,
             !.state.expectingDialogue = FALSE,
             !.state.currentElementType = "scene_heading"]
    ELSE DetectDialogueBlock(r, trimmedLine, o, n)

\* the checks after the title-page block: scene heading, transition, then
\* the dialogue block
Classify(r, trimmedLine, o, n) ==
    IF o.detectSceneHeadings /\ isSceneHeading(trimmedLine, o.strictMode)
    THEN [Push(r, "scene_heading", trimmedLine, n) EXCEPT
             !.state.sceneCount = @ + 1,
             !.state.expectingDialogue = FALSE,
             !.state.currentElementType = "scene_heading"]
    ELSE IF isTransition(trimmedLine, o.strictMode)
    THEN [Push(r, "transition", trimmedLine, n) EXCEPT
             !.state.expectingDialogue = FALSE,
             !.state.currentElementType = "transition"]
    ELSE DetectDialogueBlock(r, trimmedLine, o, n)

\* the title-page block without the test of the detectSceneHeadings option
TitlePageBlockNoOptionTest(r, trimmedLine, o, n) ==
    IF o.detectSceneHeadings /\ isSceneHeading(trimmedLine, o.strictMode)
    THEN Classify([r EXCEPT !.state.inTitlePage = FALSE,
                            !.state.sceneCount = @ + 1],
                  trimmedLine, o, n)
    ELSE IF Len(r.state.titlePageLines) >= TitlePageCap
    THEN Classify([FlushTitleLines(r, 1) EXCEPT
                       !.state.titlePageLines = <<>>,
                       !.state.inTitlePage = FALSE,
                       !.bufOrigin = <<>>],
                  trimmedLine, o, n)
    ELSE [r EXCEPT !.state.titlePageLines = Append(@, trimmedLine),
                   !.bufOrigin = Append(@, n)]

\* the title-page block that stays in title-page mode at a scene heading
TitlePageBlockStaysInTitlePage(r, trimmedLine, o, n) ==
    IF o.detectSceneHeadings /\ isSceneHeading(trimmedLine, o.strictMode)
    THEN Classify([r EXCEPT !.state.sceneCount = @ + 1], trimmedLine, o, n)
    ELSE IF ~o.detectSceneHeadings
    THEN Classify([r EXCEPT !.state.inTitlePage = FALSE], trimmedLine, o, n)
    ELSE IF Len(r.state.titlePageLines) >= TitlePageCap
    THEN Classify([FlushTitleLines(r, 1) EXCEPT
                       !.state.titlePageLines = <<>>,
                       !.state.inTitlePage = FALSE,
                       !.bufOrigin = <<>>],
                  trimmedLine, o, n)
    ELSE [r EXCEPT !.state.titlePageLines = Append(@, trimmedLine),
                   !.bufOrigin = Append(@, n)]

\* the title-page block whose flush leaves the buffer as it was
TitlePageBlockKeepsBuffer(r, trimmedLine, o, n) ==
    IF o.detectSceneHeadings /\ isSceneHeading(trimmedLine, o.strictMode)
    THEN Classify([r EXCEPT !.state.inTitlePage = FALSE,
                            !.state.sceneCount = @ + 1],
                  trimmedLine, o, n)
    ELSE IF ~o.detectSceneHeadings
    THEN Classify([r EXCEPT !.state.inTitlePage = FALSE], trimmedLine, o, n)
    ELSE IF Len(r.state.titlePageLines) >= TitlePageCap
    THEN Classify([FlushTitleLines(r, 1) EXCEPT !.state.inTitlePage = FALSE],
                  trimmedLine, o, n)
    ELSE [r EXCEPT !.state.titlePageLines = Append(@, trimmedLine),
                   !.bufOrigin = Append(@, n)]

\* if (state.inTitlePage) { ... }: collect, or leave title-page mode and
\* fall through to Classify
TitlePageBlock(r, trimmedLine, o, n) ==
    IF o.detectSceneHeadings /\ isSceneHeading(trimmedLine, o.strictMode)
    THEN Classify([r EXCEPT !.state.inTitlePage = FALSE,
                            !.state.sceneCount = @ + 1],
                  trimmedLine, o, n)
    ELSE IF ~o.detectSceneHeadings
    THEN Classify([r EXCEPT !.state.inTitlePage = FALSE], trimmedLine, o, n)
    ELSE IF Len(r.state.titlePageLines) >= TitlePageCap
    THEN Classify([FlushTitleLines(r, 1) EXCEPT
                       !.state.titlePageLines = <<>>,
                       !.state.inTitlePage = FALSE,
                       !.bufOrigin = <<>>],
                  trimmedLine, o, n)
    ELSE [r EXCEPT !.state.titlePageLines = Append(@, trimmedLine),
                   !.bufOrigin = Append(@, n)]

\* the blank-line step that leaves the dialogue expectation standing
SkipEmptyLineKeepsDialogue(r, n) ==
    IF r.state.inTitlePage
    THEN [r EXCEPT !.state.titlePageLines = Append(@, <<>>),
                   !.bufOrigin = Append(@, n)]
    ELSE r

\* if (!trimmedLine) { ... continue; }
SkipEmptyLine(r, n) ==
    LET b == IF r.state.inTitlePage
             THEN [r EXCEPT !.state.titlePageLines = Append(@, <<>>),
                            !.bufOrigin = Append(@, n)]
             ELSE r
    IN  IF b.state.expectingDialogue
        THEN [b EXCEPT !.state.expectingDialogue = FALSE,
                       !.state.lastCharacterName = None]
        ELSE b

\* the loop body with a page break that ends the dialogue block
LineStepBreakEndsDialogue(r, line, o, n) ==
    LET trimmedLine == TrimTable[line]
    IN  IF line = PAGE_BREAK
        THEN [Push(r, "page_break", <<>>, n) EXCEPT
                 !.state.expectingDialogue = FALSE,
                 !.state.lastCharacterName = None]
        ELSE IF trimmedLine = <<>>
        THEN SkipEmptyLine(r, n)
        ELSE IF isPageNumber(trimmedLine)
        THEN r
        ELSE IF NOTE_REGEX(trimmedLine)
        THEN Push(r, "note", trimmedLine, n)
        ELSE IF r.state.inTitlePage
        THEN TitlePageBlock(r, trimmedLine, o, n)
        ELSE Classify(r, trimmedLine, o, n)

\* the body of for (let i = 0; i < allLines.length; i++)
LineStep(r, line, o, n) ==
    LET trimmedLine == TrimTable[line]
    IN  IF line = PAGE_BREAK
        THEN Push(r, "page_break", <<>>, n)
        ELSE IF trimmedLine = <<>>
        THEN SkipEmptyLine(r, n)
        ELSE IF isPageNumber(trimmedLine)
        THEN r
        ELSE IF NOTE_REGEX(trimmedLine)
        THEN Push(r, "note", trimmedLine, n)
        ELSE IF r.state.inTitlePage
        THEN TitlePageBlock(r, trimmedLine, o, n)
        ELSE Classify(r, trimmedLine, o, n)

\* what became of the line just consumed (history only)
Outcome(before, after, line) ==
    IF Len(after.elements) > Len(before.elements)
    THEN after.elements[Len(after.elements)].type
    ELSE IF TrimTable[line] = <<>> THEN "blank"
    ELSE IF Len(after.state.titlePageLines) > Len(before.state.titlePageLines)
    THEN "buffered"
    ELSE "skipped"

\* the inputs explored: see MaxLines, FillLen, MaxTail
IsFill(s) == \A i \in 1..Min(Len(s), FillLen) : s[i] = PlainLine

\* the lines that may follow the fill block up to MaxLongTail
LongTailLines == {PlainLine, SceneLine, BlankLine}

IsLongTail(s) == \A i \in (FillLen + 1)..Len(s) : s[i] \in LongTailLines

MayConsume(line) ==
    \/ Len(allLines) < MaxLines
    \/ /\ Len(allLines) < FillLen + MaxTail
       /\ IsFill(Append(allLines, line))
    \/ /\ Len(allLines) < FillLen + MaxLongTail
       /\ IsFill(Append(allLines, line))
       /\ IsLongTail(Append(allLines, line))

ProcessLine(line) ==
    /\ pc = "main"
    /\ MayConsume(line)
    /\ LET before == [state |-> state, elements |-> elements,
                      origin |-> origin, bufOrigin |-> bufOrigin]
           n == Len(allLines) + 1
           after == LineStep(before, line, opts, n)
       IN  /\ state' = after.state
           /\ elements' = after.elements
           /\ origin' = after.origin
           /\ bufOrigin' = after.bufOrigin
           /\ trace' = Append(trace,
                  [ expecting |-> state.expectingDialogue,
                    current |-> state.currentElementType,
                    inTitlePage |-> state.inTitlePage,
                    outcome |-> Outcome(before, after, line) ])
    /\ allLines' = Append(allLines, line)
    /\ UNCHANGED <<opts, document, pc>>
    /\ UNCHANGED auxVars

(***************************************************************************)
(* parseTitlePage                                                          *)
(***************************************************************************)
\* Common title page fields
fields == << <<"t","i","t","l","e">>, <<"a","u","t","h","o","r">>,
             <<"c","r","e","d","i","t">>, <<"s","o","u","r","c","e">>,
             <<"d","r","a","f","t">>, <<"d","a","t","e">>,
             <<"c","o","n","t","a","c","t">> >>

\* the keys of the returned record, in the order of fields
fieldKeys == <<"title", "author", "credit", "source", "draft", "date", "contact">>

\* titlePage[key] = value
SetKey(tp, key, value) ==
    [x \in (DOMAIN tp) \cup {key} |-> IF x = key THEN value ELSE tp[x]]

\* Array.prototype.join(' ')
RECURSIVE JoinFrom(_, _)
JoinFrom(values, k) ==
    IF k > Len(values) THEN <<>>
    ELSE IF k = Len(values) THEN values[k]
    ELSE values[k] \o <<" ">> \o JoinFrom(values, k + 1)

\* line.substring(line.indexOf(':') + 1)
AfterColon(line) ==
    LET colons == {i \in DOMAIN line : line[i] = ":"}
        first == CHOOSE i \in colons : \A j \in colons : i <= j
    IN  SubSeq(line, first + 1, Len(line))

\* if (currentField && currentValue.length > 0) titlePage[currentField] = ...
SaveField(a) ==
    IF a.currentField # "null" /\ Len(a.currentValue) > 0
    THEN SetKey(a.titlePage, a.currentField, trim(JoinFrom(a.currentValue, 1)))
    ELSE a.titlePage

\* an iteration in which a leading line takes the place of the title so far
TitleLineStepLastLineOnly(a, line) ==
    IF a.currentField = "null"
    THEN [a EXCEPT !.titlePage = SetKey(@, "title", line)]
    ELSE [a EXCEPT !.currentValue = Append(@, line)]

\* one iteration of for (const line of lines); a = [titlePage, currentField,
\* currentValue]
TitleLineStep(a, line) ==
    LET lowerLine == toLowerCase(line)
        hits == {k \in DOMAIN fields :
                    startsWith(lowerLine, fields[k]) /\ ":" \in Range(lowerLine)}
    IN  IF hits # {}
        THEN LET k == CHOOSE h \in hits : \A g \in hits : h <= g
             IN  [ titlePage |-> SaveField(a),
                   currentField |-> fieldKeys[k],
                   currentValue |-> << trim(AfterColon(line)) >> ]
        ELSE IF a.currentField # "null"
        THEN [a EXCEPT !.currentValue = Append(@, line)]
        ELSE IF "title" \notin DOMAIN a.titlePage \/ a.titlePage["title"] = <<>>
        THEN [a EXCEPT !.titlePage = SetKey(@, "title", line)]
        ELSE [a EXCEPT !.titlePage =
                 SetKey(@, "title", a.titlePage["title"] \o <<" ">> \o line)]

RECURSIVE TitleLoop(_, _, _)
TitleLoop(a, lines, k) ==
    IF k > Len(lines) THEN a
    ELSE TitleLoop(TitleLineStep(a, lines[k]), lines, k + 1)

parseTitlePage(lines) ==
    SaveField(TitleLoop([ titlePage |-> <<>>, currentField |-> "null",
                          currentValue |-> <<>> ], lines, 1))

(***************************************************************************)
(* End of input: the re-parse of the collected lines and the document      *)
(***************************************************************************)
ReparsedState == [InitialState EXCEPT !.inTitlePage = FALSE]

\* the re-parse step with the character test not tied to detectCharacterNames
ReparseStepAnyCharacter(r, titleLine, o, n) ==
    LET trimmedLine == TrimTable[titleLine]
    IN  IF trimmedLine = <<>>
        THEN IF r.state.expectingDialogue
             THEN [r EXCEPT !.state.expectingDialogue = FALSE,
                            !.state.lastCharacterName = None]
             ELSE r
        ELSE IF r.state.expectingDialogue /\ PARENTHETICAL_REGEX(trimmedLine)
        THEN Push(r, "parenthetical", trimmedLine, n)
        ELSE IF isCharacterName(trimmedLine, r.state, o.strictMode)
        THEN [Push(r, "character", trimmedLine, n) EXCEPT
                 !.state.lastCharacterName = Some(cleanName(trimmedLine)),
                 !.state.expectingDialogue = TRUE,
                 !.state.currentElementType = "character"]
        ELSE IF r.state.expectingDialogue
        THEN [Push(r, "dialogue", trimmedLine, n) EXCEPT
                 !.state.currentElementType = "dialogue"]
        ELSE IF isTransition(trimmedLine, o.strictMode)
        THEN [Push(r, "transition", trimmedLine, n) EXCEPT
                 !.state.expectingDialogue = FALSE,
                 !.state.currentElementType = "transition"]
        ELSE [Push(r, "action", trimmedLine, n) EXCEPT
                 !.state.expectingDialogue = FALSE,
                 !.state.currentElementType = "action"]

\* one iteration of for (const titleLine of state.titlePageLines); here
\* r.state is reparsedState
ReparseStep(r, titleLine, o, n) ==
    LET trimmedLine == TrimTable[titleLine]
    IN  IF trimmedLine = <<>>
        THEN IF r.state.expectingDialogue
             THEN [r EXCEPT !.state.expectingDialogue = FALSE,
                            !.state.lastCharacterName = None]
             ELSE r
        ELSE IF r.state.expectingDialogue /\ PARENTHETICAL_REGEX(trimmedLine)
        THEN Push(r, "parenthetical", trimmedLine, n)
        ELSE IF o.detectCharacterNames
                /\ isCharacterName(trimmedLine, r.state, o.strictMode)
        THEN [Push(r, "character", trimmedLine, n) EXCEPT
                 !.state.lastCharacterName = Some(cleanName(trimmedLine)),
                 !.state.expectingDialogue = TRUE,
                 !.state.currentElementType = "character"]
        ELSE IF r.state.expectingDialogue
        THEN [Push(r, "dialogue", trimmedLine, n) EXCEPT
                 !.state.currentElementType = "dialogue"]
        ELSE IF isTransition(trimmedLine, o.strictMode)
        THEN [Push(r, "transition", trimmedLine, n) EXCEPT
                 !.state.expectingDialogue = FALSE,
                 !.state.currentElementType = "transition"]
        ELSE [Push(r, "action", trimmedLine, n) EXCEPT
                 !.state.expectingDialogue = FALSE,
                 !.state.currentElementType = "action"]

RECURSIVE ReparseLoop(_, _, _, _, _)
ReparseLoop(r, lines, from, o, k) ==
    IF k > Len(lines) THEN r
    ELSE ReparseLoop(ReparseStep(r, lines[k], o, from[k]), lines, from, o, k + 1)

\* Reparse with a second pass over the collected lines
ReparseRunsTwice(r, o) ==
    IF r.state.inTitlePage /\ Len(r.state.titlePageLines) > 0
       /\ r.state.sceneCount = 0
    THEN LET once == ReparseLoop([r EXCEPT !.state = ReparsedState],
                                 r.state.titlePageLines, r.bufOrigin, o, 1)
             re == ReparseLoop(once, r.state.titlePageLines, r.bufOrigin, o, 1)
         IN  [r EXCEPT !.elements = re.elements,
                       !.origin = re.origin,
                       !.state.titlePageLines = <<>>,
                       !.bufOrigin = <<>>]
    ELSE r

\* Reparse with the loop starting one entry late
ReparseSkipsFirst(r, o) ==
    IF r.state.inTitlePage /\ Len(r.state.titlePageLines) > 0
       /\ r.state.sceneCount = 0
    THEN LET re == ReparseLoop([r EXCEPT !.state = ReparsedState],
                               r.state.titlePageLines, r.bufOrigin, o, 2)
         IN  [r EXCEPT !.elements = re.elements,
                       !.origin = re.origin,
                       !.state.titlePageLines = <<>>,
                       !.bufOrigin = <<>>]
    ELSE r

\* if (state.inTitlePage && state.titlePageLines.length > 0
\*     && state.sceneCount === 0) { ... }
Reparse(r, o) ==
    IF r.state.inTitlePage /\ Len(r.state.titlePageLines) > 0
       /\ r.state.sceneCount = 0
    THEN LET re == ReparseLoop([r EXCEPT !.state = ReparsedState],
                               r.state.titlePageLines, r.bufOrigin, o, 1)
         IN  [r EXCEPT !.elements = re.elements,
                       !.origin = re.origin,
                       !.state.titlePageLines = <<>>,
                       !.bufOrigin = <<>>]
    ELSE r

\* the document with the scene-count test of the title page left out
BuildDocumentAnyBuffer(r, includeMetadata) ==
    [ elements |-> r.elements,
      titlePage |-> IF Len(r.state.titlePageLines) > 0
                    THEN Some(parseTitlePage(r.state.titlePageLines))
                    ELSE None,
      hasMetadata |-> includeMetadata ]

\* Build the document
BuildDocument(r, includeMetadata) ==
    [ elements |-> r.elements,
      titlePage |-> IF Len(r.state.titlePageLines) > 0 /\ r.state.sceneCount > 0
                    THEN Some(parseTitlePage(r.state.titlePageLines))
                    ELSE None,
      hasMetadata |-> includeMetadata ]

\* the loop has consumed every line: re-parse if needed, build, return.
\* includeMetadata is read here for the first time.
Finish(includeMetadata) ==
    /\ pc = "main"
    /\ LET r == Reparse([state |-> state, elements |-> elements,
                         origin |-> origin, bufOrigin |-> bufOrigin], opts)
       IN  /\ state' = r.state
           /\ elements' = r.elements
           /\ origin' = r.origin
           /\ bufOrigin' = r.bufOrigin
           /\ document' = Some(BuildDocument(r, includeMetadata))
    /\ pc' = "done"
    /\ UNCHANGED <<opts, allLines, trace>>
    /\ UNCHANGED auxVars

Next ==
    \/ \E line \in Lines : ProcessLine(line)
    \/ \E includeMetadata \in BOOLEAN : Finish(includeMetadata)

Spec == Init /\ [][Next]_vars

\* The same parse under fairness, on inputs of up to MaxShortLines lines of
\* the kinds in ShortLines.  The loop is synchronous code: an iteration that
\* can run does run, and the function goes on to return once the lines are
\* consumed.
MaxShortLines == 3

ShortLines == {SceneLine, CharacterLine, PlainLine, BlankLine, PageNumberLine}

NextShort ==
    \/ \E line \in ShortLines :
          Len(allLines) < MaxShortLines /\ ProcessLine(line)
    \/ \E includeMetadata \in BOOLEAN : Finish(includeMetadata)

SpecTerminating == Init /\ [][NextShort]_vars /\ WF_vars(NextShort)

(***************************************************************************)
(* parseScreenplay from pdfContent.pages: allLines is built page by page,  *)
(* then the line loop, the re-parse and the document follow in one step.   *)
(* Spec above draws the lines of allLines directly, the marker among them. *)
(***************************************************************************)
\* Bounds of the explored page sequences
MaxPages == 3
MaxPageNumberGap == 1

\* the lines of one page
PageLineChoices == { <<PlainLine>>, <<SceneLine, CharacterLine>> }

\* pageNumber grows with the position in the text; empty pages leave gaps
IsPageSequence(ps) ==
    /\ ps[1].pageNumber >= 1
    /\ \A k \in 1..(Len(ps) - 1) : ps[k].pageNumber < ps[k + 1].pageNumber

PageSequences ==
    UNION { { ps \in [1..n -> [ pageNumber : 1..(MaxPages + MaxPageNumberGap),
                                lines : PageLineChoices ]] : IsPageSequence(ps) }
            : n \in 1..MaxPages }

InitPages ==
    /\ opts \in [ detectSceneHeadings : BOOLEAN,
                   detectCharacterNames : BOOLEAN,
                   strictMode : BOOLEAN ]
    /\ pages \in PageSequences
    /\ pageIndex = 0
    /\ allLines = <<>>
    /\ state = InitialState
    /\ elements = <<>>
    /\ document = None
    /\ pc = "pages"
    /\ origin = <<>>
    /\ bufOrigin = <<>>
    /\ trace = <<>>
    /\ earlier = None
    /\ output = None
    /\ readResult = None
    /\ result = None
    /\ calls = <<>>
    /\ runs = <<>>
    /\ verdicts = <<>>
    /\ reader = <<>>
    /\ batch = <<>>

\* allLines.push(...page.lines); if (page.pageNumber < pdfContent.pages.length)
\* allLines.push('___PAGE_BREAK___')
PushPageLines(lines, page, pageCount) ==
    lines \o page.lines \o
        (IF page.pageNumber < pageCount THEN <<PAGE_BREAK>> ELSE <<>>)

AddPage ==
    /\ pc = "pages"
    /\ pageIndex < Len(pages)
    /\ allLines' = PushPageLines(allLines, pages[pageIndex + 1], Len(pages))
    /\ pageIndex' = pageIndex + 1
    /\ UNCHANGED <<opts, state, elements, document, pc, origin, bufOrigin, trace,
                   pages, earlier, output>>
    /\ UNCHANGED convVars

\* for (let i = 0; i < allLines.length; i++) { ... }
RECURSIVE MainLoop(_, _, _, _)
MainLoop(r, lines, o, k) ==
    IF k > Len(lines) THEN r
    ELSE MainLoop(LineStep(r, lines[k], o, k), lines, o, k + 1)

\* the locals of a call that go on where an earlier call stopped
KeptLocals(prev) == prev

\* const state: ParserState = {...}; const elements = []: the locals of a
\* call start afresh, whatever an earlier call (prev) left behind
FreshLocals(prev) ==
    [ state |-> InitialState, elements |-> <<>>,
      origin |-> <<>>, bufOrigin |-> <<>> ]

\* the line loop and the re-parse of one call
ParseLines(prev, lines, o) ==
    Reparse(MainLoop(FreshLocals(prev), lines, o, 1), o)

\* const allLines = []; for (const page of pdfContent.pages) { ... }
RECURSIVE AllLinesFrom(_, _)
AllLinesFrom(ps, k) ==
    IF k = 0 THEN <<>>
    ELSE PushPageLines(AllLinesFrom(ps, k - 1), ps[k], Len(ps))

ParsePages(includeMetadata) ==
    /\ pc = "pages"
    /\ pageIndex = Len(pages)
    /\ LET r == ParseLines([state |-> state, elements |-> elements,
                             origin |-> origin, bufOrigin |-> bufOrigin],
                            allLines, opts)
       IN  /\ state' = r.state
           /\ elements' = r.elements
           /\ origin' = r.origin
           /\ bufOrigin' = r.bufOrigin
           /\ document' = Some(BuildDocument(r, includeMetadata))
    /\ pc' = "done"
    /\ UNCHANGED <<opts, allLines, trace, pages, pageIndex, earlier, output>>
    /\ UNCHANGED convVars

\* a second call of parseScreenplay with the same pdfContent and options
ParseAgain ==
    /\ pc = "done"
    /\ pages # <<>>
    /\ LET lines == AllLinesFrom(pages, Len(pages))
           r == ParseLines([state |-> state, elements |-> elements,
                            origin |-> origin, bufOrigin |-> bufOrigin],
                           lines, opts)
       IN  /\ allLines' = lines
           /\ state' = r.state
           /\ elements' = r.elements
           /\ origin' = r.origin
           /\ bufOrigin' = r.bufOrigin
           /\ document' = Some(BuildDocument(r, document[1].hasMetadata))
    /\ earlier' = document
    /\ pc' = "again"
    /\ UNCHANGED <<opts, trace, pages, pageIndex, output>>
    /\ UNCHANGED convVars

NextPages ==
    \/ AddPage
    \/ \E includeMetadata \in BOOLEAN : ParsePages(includeMetadata)
    \/ ParseAgain

SpecPages == InitPages /\ [][NextPages]_vars

(***************************************************************************)
(* parseScreenplay on one page that opens with title-page lines and ends   *)
(* with a scene heading: the input on which parseTitlePage gets to work.   *)
(***************************************************************************)
\* Bound of the lines before the scene heading
MaxTitleLines == 3

TitlePageInputs ==
    UNION { [1..n -> TitleLines \cup {BlankLine}] : n \in 1..MaxTitleLines }

InitTitlePage ==
    /\ opts \in [ detectSceneHeadings : BOOLEAN,
                   detectCharacterNames : BOOLEAN,
                   strictMode : BOOLEAN ]
    /\ pages \in { << [pageNumber |-> 1, lines |-> t \o <<SceneLine>>] >> :
                      t \in TitlePageInputs }
    /\ pageIndex = 0
    /\ allLines = <<>>
    /\ state = InitialState
    /\ elements = <<>>
    /\ document = None
    /\ pc = "pages"
    /\ origin = <<>>
    /\ bufOrigin = <<>>
    /\ trace = <<>>
    /\ earlier = None
    /\ output = None
    /\ readResult = None
    /\ result = None
    /\ calls = <<>>
    /\ runs = <<>>
    /\ verdicts = <<>>
    /\ reader = <<>>
    /\ batch = <<>>

SpecTitlePage == InitTitlePage /\ [][NextPages]_vars

(***************************************************************************)
(* The Fountain generator: generateFountain and its formatters             *)
(***************************************************************************)
NL == <<"\n">>

\* /^(INT\.?|EXT\.?|INT\.?\/EXT\.?|I\.?\/E\.?)\s/i
hasPrefix(text) ==
    LET s == toUpperCase(text)       \* the i flag
        INT == Opt(s, Lit(s, {1}, <<"I","N","T">>), <<".">>)
        EXT == Opt(s, Lit(s, {1}, <<"E","X","T">>), <<".">>)
        INT_EXT == Opt(s, Lit(s, Lit(s, INT, <<"/">>), <<"E","X","T">>), <<".">>)
        I_E == Opt(s, Lit(s, Lit(s, Opt(s, Lit(s, {1}, <<"I">>), <<".">>),
                                 <<"/">>), <<"E">>), <<".">>)
        prefix == INT \cup EXT \cup INT_EXT \cup I_E
    IN  \E p \in prefix : p <= Len(s) /\ InClass(s[p], "\\s")

formatSceneHeading(element) ==
    LET text == trim(element.text)
    IN  (IF hasPrefix(text) THEN text ELSE <<".">> \o text) \o NL

formatAction(element) == trim(element.text) \o NL

formatCharacter(element) == toUpperCase(trim(element.text)) \o NL

formatDialogue(element) == trim(element.text) \o NL

\* a formatter that wraps without looking at the text
formatParentheticalAlways(element) ==
    <<"(">> \o trim(element.text) \o <<")">> \o NL

formatParenthetical(element) ==
    LET text == trim(element.text)
        opened == IF startsWith(text, <<"(">>) THEN text ELSE <<"(">> \o text
        closed == IF endsWith(opened, <<")">>) THEN opened ELSE opened \o <<")">>
    IN  closed \o NL

formatTransition(element) ==
    LET text == toUpperCase(trim(element.text))
    IN  (IF startsWith(text, <<">">>) THEN text ELSE <<">", " ">> \o text) \o NL

formatPageBreak == <<"=", "=", "=">> \o NL

formatNote(element) ==
    LET text == trim(element.text)
        opened == IF startsWith(text, <<"[", "[">>) THEN text
                  ELSE <<"[", "[">> \o text
        closed == IF endsWith(opened, <<"]", "]">>) THEN opened
                  ELSE opened \o <<"]", "]">>
    IN  closed \o NL

formatSection(element) ==
    LET text == trim(element.text)
    IN  (IF startsWith(text, <<"#">>) THEN text ELSE <<"#", " ">> \o text) \o NL

formatSynopsis(element) ==
    LET text == trim(element.text)
    IN  (IF startsWith(text, <<"=">>) THEN text ELSE <<"=", " ">> \o text) \o NL

\* the text of the element's kind, without the spacing before it
formatByType(element) ==
    CASE element.type = "scene_heading" -> formatSceneHeading(element)
      [] element.type = "action" -> formatAction(element)
      [] element.type = "character" -> formatCharacter(element)
      [] element.type = "dialogue" -> formatDialogue(element)
      [] element.type = "parenthetical" -> formatParenthetical(element)
      [] element.type = "transition" -> formatTransition(element)
      [] element.type = "page_break" -> formatPageBreak
      [] element.type = "note" -> formatNote(element)
      [] element.type = "section" -> formatSection(element)
      [] element.type = "synopsis" -> formatSynopsis(element)
      [] element.type = "title_page" -> formatAction(element)
      [] OTHER -> element.text \o NL

\* prevElement is None for the first element
getSpacingBefore(element, prevElement) ==
    IF prevElement = None THEN <<>>
    ELSE LET type == element.type
             prevType == prevElement[1].type
         IN  IF type = "scene_heading" THEN NL \o NL
             ELSE IF type = "character"
                     /\ (prevType = "dialogue" \/ prevType = "parenthetical")
             THEN NL \o NL
             ELSE IF type = "character" /\ prevType # "character"
             THEN NL \o NL
             ELSE IF type = "dialogue" /\ prevType = "character" THEN NL
             ELSE IF type = "parenthetical" THEN NL
             ELSE IF type = "dialogue" /\ prevType = "parenthetical" THEN NL
             ELSE IF type = "action" THEN NL \o NL
             ELSE IF type = "transition" THEN NL \o NL
             ELSE NL \o NL

formatElement(element, prevElement) ==
    getSpacingBefore(element, prevElement) \o formatByType(element)

\* key.charAt(0).toUpperCase() + key.slice(1)
formattedKey(key) ==
    IF key = <<>> THEN <<>> ELSE <<UpperChar(key[1])>> \o Tail(key)

\* titlePage is the sequence of its entries, in the order of Object.entries
RECURSIVE formatTitlePage(_)
formatTitlePage(titlePage) ==
    IF titlePage = <<>> THEN <<>>
    ELSE formattedKey(titlePage[1].key) \o <<":", " ">> \o titlePage[1].value
             \o NL \o formatTitlePage(Tail(titlePage))

\* the decimal digits of a number (string concatenation with a number)
RECURSIVE NumberToString(_)
NumberToString(n) ==
    LET digit == <<"0","1","2","3","4","5","6","7","8","9">>[(n % 10) + 1]
    IN  IF n < 10 THEN <<digit>> ELSE NumberToString(n \div 10) \o <<digit>>

formatMetadata(metadata) ==
    <<"[","[","C","o","n","v","e","r","t","e","d"," ","f","r","o","m"," ","P","D","F",":"," ">> \o metadata.convertedFrom
    \o <<"\n","C","o","n","v","e","r","s","i","o","n"," ","d","a","t","e",":"," ">> \o metadata.convertedAt
    \o (IF metadata.pageCount # 0
        THEN <<"\n","O","r","i","g","i","n","a","l"," ","p","a","g","e"," ","c","o","u","n","t",":"," ">>
                 \o NumberToString(metadata.pageCount)
        ELSE <<>>)
    \o <<"]", "]">> \o NL

\* for (let i = 0; i < document.elements.length; i++) output += formatElement(...)
RECURSIVE formatElementsUpTo(_, _)
formatElementsUpTo(els, i) ==
    IF i = 0 THEN <<>>
    ELSE formatElementsUpTo(els, i - 1)
             \o formatElement(els[i], IF i > 1 THEN Some(els[i - 1]) ELSE None)

\* the output with the metadata note put before the elements
rawOutputMetadataFirst(doc) ==
    (IF doc.titlePage # None
     THEN formatTitlePage(doc.titlePage[1]) \o NL \o NL ELSE <<>>)
    \o (IF doc.metadata # None
        THEN NL \o NL \o formatMetadata(doc.metadata[1]) ELSE <<>>)
    \o formatElementsUpTo(doc.elements, Len(doc.elements))

\* the output before the final trim
rawOutput(doc) ==
    (IF doc.titlePage # None
     THEN formatTitlePage(doc.titlePage[1]) \o NL \o NL ELSE <<>>)
    \o formatElementsUpTo(doc.elements, Len(doc.elements))
    \o (IF doc.metadata # None
        THEN NL \o NL \o formatMetadata(doc.metadata[1]) ELSE <<>>)

\* the generator with the final trim left out
generateFountainUntrimmed(doc) == rawOutput(doc) \o NL

generateFountain(doc) == trim(rawOutput(doc)) \o NL

(***************************************************************************)
(* generateFountain on documents drawn from a bounded set                  *)
(***************************************************************************)
\* Bound of the explored documents
MaxElements == 2

EstLine == <<"E","S","T","."," ","A">>
BareHeading == <<"H","O","M","E">>
BareParen == <<"x">>
MarkedTransition == <<">"," ","C","U","T"," ","T","O",":">>
BareNote == <<"n">>
MarkedSection == <<"#"," ","S">>
BareSection == <<"S">>
MarkedSynopsis == <<"="," ","s">>

\* the elements a document is made of
ElementChoices ==
    { [type |-> "scene_heading", text |-> SceneLine],
      [type |-> "scene_heading", text |-> EstLine],
      [type |-> "scene_heading", text |-> BareHeading],
      [type |-> "action", text |-> PlainLine],
      [type |-> "action", text |-> BlankLine],
      [type |-> "character", text |-> CharacterLine],
      [type |-> "dialogue", text |-> PlainLine],
      [type |-> "parenthetical", text |-> ParenLine],
      [type |-> "parenthetical", text |-> BareParen],
      [type |-> "transition", text |-> TransitionLine],
      [type |-> "transition", text |-> MarkedTransition],
      [type |-> "transition", text |-> BlankLine],
      [type |-> "page_break", text |-> BlankLine],
      [type |-> "note", text |-> NoteLine],
      [type |-> "note", text |-> BareNote],
      [type |-> "section", text |-> MarkedSection],
      [type |-> "section", text |-> BareSection],
      [type |-> "section", text |-> BlankLine],
      [type |-> "synopsis", text |-> MarkedSynopsis],
      [type |-> "synopsis", text |-> BlankLine],
      [type |-> "title_page", text |-> PlainLine] }

TitlePageChoices ==
    { None,
      Some(<< [key |-> <<"t","i","t","l","e">>, value |-> BareSection] >>) }

MetadataChoices ==
    { None,
      Some([ convertedFrom |-> <<"P","D","F"," ","S","c","r","e","e","n","p","l","a","y">>,
             convertedAt |-> <<"2","0","2","6","-","1","1","-","0","4">>,
             pageCount |-> 0 ]),
      Some([ convertedFrom |-> <<"P","D","F"," ","S","c","r","e","e","n","p","l","a","y">>,
             convertedAt |-> <<"2","0","2","6","-","1","1","-","0","4">>,
             pageCount |-> 12 ]) }

RenderDocuments ==
    [ elements : UNION { [1..n -> ElementChoices] : n \in 0..MaxElements },
      titlePage : TitlePageChoices,
      metadata : MetadataChoices ]

InitRender ==
    /\ document \in { Some(doc) : doc \in RenderDocuments }
    /\ output = None
    /\ pc = "render"
    /\ opts = [ detectSceneHeadings |-> TRUE, detectCharacterNames |-> TRUE,
                strictMode |-> FALSE ]
    /\ allLines = <<>>
    /\ state = InitialState
    /\ elements = <<>>
    /\ origin = <<>>
    /\ bufOrigin = <<>>
    /\ trace = <<>>
    /\ pages = <<>>
    /\ pageIndex = 0
    /\ earlier = None
    /\ readResult = None
    /\ result = None
    /\ calls = <<>>
    /\ runs = <<>>
    /\ verdicts = <<>>
    /\ reader = <<>>
    /\ batch = <<>>

Render ==
    /\ pc = "render"
    /\ output' = Some(generateFountain(document[1]))
    /\ pc' = "rendered"
    /\ UNCHANGED <<opts, allLines, state, elements, document, origin, bufOrigin,
                   trace, pages, pageIndex, earlier>>
    /\ UNCHANGED convVars

NextRender == Render

SpecRender == InitRender /\ [][NextRender]_vars

\* vocabulary of the generator's properties
Rendered == pc = "rendered"

RenderedDoc == document[1]

\* the formatted text of an element without its final newline
Body(element) ==
    LET f == formatByType(element) IN SubSeq(f, 1, Len(f) - 1)

(***************************************************************************)
(* convertPDFToFountain: readPDF is awaited, its content validated, parsed *)
(* and checked for soft findings; whatever is thrown on the way is turned   *)
(* into a failure result.  Messages are strings the converter passes on or  *)
(* picks; it never takes one apart.                                         *)
(***************************************************************************)
\* pdfContent.text as readPDF may deliver it
EmptyText == <<>>
BlankText == <<" ", "\n", " ">>
SomeText == <<"H", "i", ".">>
TextChoices == {EmptyText, BlankText, SomeText}

\* a page none of whose lines yields an element
BlankPages == << [pageNumber |-> 1, lines |-> <<BlankLine, PageNumberLine>>] >>

\* pdfContent: PDFContent leaves text and pages independent of each other
ContentChoices ==
    [ text : TextChoices, pages : {<<>>, BlankPages} \cup PageSequences ]

\* what readPDF rejects with: an Error it built itself, or the value it
\* caught when that was no Error instance (throw error)
NotFoundMessage == "PDF file not found: a.pdf"
ForeignMessage == "worker terminated"
RejectionChoices ==
    { [isError |-> TRUE, message |-> NotFoundMessage],
      [isError |-> FALSE, message |-> ForeignMessage] }

ReadOutcomes ==
    { [kind |-> "resolved", content |-> c] : c \in ContentChoices }
        \cup { [kind |-> "rejected", error |-> e] : e \in RejectionChoices }

\* the fixed texts of the converter
EmptyTextError == "PDF file appears to be empty or contains no readable text"
NoPagesError == "PDF file has no pages"
NoElementsWarning == "No screenplay elements were detected in the PDF"
NoSceneHeadingsWarning ==
    "No scene headings detected. The PDF may not be a screenplay."
NoCharactersWarning ==
    "No character names detected. The PDF may not be a screenplay."
NoDialogueWarning ==
    "No dialogue detected. This may be an action-heavy screenplay or not a screenplay at all."
UnknownError == "Unknown error during conversion"

\* return { success: false, errors: [message] }
FailureResult(message) == [ success |-> FALSE, errors |-> <<message>> ]

\* the validation with the page test left out
ValidationErrorTextOnly(content) ==
    IF trim(content.text) = <<>> THEN Some(EmptyTextError) ELSE None

\* if (!pdfContent.text || pdfContent.text.trim().length === 0) ...
\* if (pdfContent.pages.length === 0) ...
ValidationError(content) ==
    IF trim(content.text) = <<>> THEN Some(EmptyTextError)
    ELSE IF Len(content.pages) = 0 THEN Some(NoPagesError)
    ELSE None

\* counts[element.type] = (counts[element.type] ?? 0) + 1, for the first k
\* elements: a type gets a key when its first element is counted
RECURSIVE CountsUpTo(_, _)
CountsUpTo(els, k) ==
    IF k = 0 THEN <<>>
    ELSE LET counts == CountsUpTo(els, k - 1)
             type == els[k].type
             old == IF type \in DOMAIN counts THEN counts[type] ELSE 0
         IN  (type :> (old + 1)) @@ counts

countElementsByType(els) == CountsUpTo(els, Len(els))

\* elementCounts.<type>: the count, or undefined (None) without the key
CountOf(elementCounts, type) ==
    IF type \in DOMAIN elementCounts THEN Some(elementCounts[type]) ELSE None

\* the warnings pushed after the parse; === 0 holds of the number 0 only
Warnings(doc, o) ==
    LET elementCounts == countElementsByType(doc.elements)
    IN  (IF Len(doc.elements) = 0 THEN <<NoElementsWarning>> ELSE <<>>)
        \o (IF CountOf(elementCounts, "scene_heading") = Some(0)
               /\ o.detectSceneHeadings
            THEN <<NoSceneHeadingsWarning>> ELSE <<>>)
        \o (IF CountOf(elementCounts, "character") = Some(0)
               /\ o.detectCharacterNames
            THEN <<NoCharactersWarning>> ELSE <<>>)
        \o (IF CountOf(elementCounts, "dialogue") = Some(0)
            THEN <<NoDialogueWarning>> ELSE <<>>)

\* a success that carries an error list as well
SuccessResultWithErrors(doc, warnings) ==
    [ success |-> TRUE, document |-> doc, errors |-> warnings ]

\* const result = { success: true, document };
\* if (warnings.length > 0) result.warnings = warnings;
SuccessResult(doc, warnings) ==
    IF Len(warnings) > 0
    THEN [ success |-> TRUE, document |-> doc, warnings |-> warnings ]
    ELSE [ success |-> TRUE, document |-> doc ]

\* a catch block that reports every failure by the fixed text
CatchResultFixedText(error) == FailureResult(UnknownError)

\* catch (error): error instanceof Error ? error.message : 'Unknown error
\* during conversion'
CatchResult(error) ==
    FailureResult(IF error.isError THEN error.message ELSE UnknownError)

InitConvert ==
    /\ opts \in [ detectSceneHeadings : BOOLEAN,
                   detectCharacterNames : BOOLEAN,
                   strictMode : BOOLEAN ]
    /\ readResult = None
    /\ result = None
    /\ calls = <<>>
    /\ pc = "convert"
    /\ pages = <<>>
    /\ pageIndex = 0
    /\ allLines = <<>>
    /\ state = InitialState
    /\ elements = <<>>
    /\ document = None
    /\ origin = <<>>
    /\ bufOrigin = <<>>
    /\ trace = <<>>
    /\ earlier = None
    /\ output = None
    /\ runs = <<>>
    /\ verdicts = <<>>
    /\ reader = <<>>
    /\ batch = <<>>

\* const pdfContent = await readPDF(pdfPath): the promise settles
ReadPDF(outcome) ==
    /\ pc = "convert"
    /\ readResult' = Some(outcome)
    /\ calls' = Append(calls, "readPDF")
    /\ pc' = "read"
    /\ UNCHANGED <<opts, allLines, state, elements, document, origin, bufOrigin,
                   trace, pages, pageIndex, earlier, output, result, runs>>
    /\ UNCHANGED otherVars

\* the rest of the function once the promise has settled: the catch block
\* after a rejection, else validation, parse, warnings and result
Convert(includeMetadata) ==
    /\ pc = "read"
    /\ LET outcome == readResult[1]
       IN  IF outcome.kind = "rejected"
           THEN /\ result' = Some(CatchResult(outcome.error))
                /\ UNCHANGED <<calls, allLines, state, elements, document,
                               origin, bufOrigin, pages>>
           ELSE IF ValidationError(outcome.content) # None
           THEN /\ result' =
                       Some(FailureResult(ValidationError(outcome.content)[1]))
                /\ UNCHANGED <<calls, allLines, state, elements, document,
                               origin, bufOrigin, pages>>
           ELSE LET ps == outcome.content.pages
                    lines == AllLinesFrom(ps, Len(ps))
                    r == ParseLines([state |-> state, elements |-> elements,
                                     origin |-> origin,
                                     bufOrigin |-> bufOrigin], lines, opts)
                    doc == BuildDocument(r, includeMetadata)
                IN  /\ pages' = ps
                    /\ allLines' = lines
                    /\ state' = r.state
                    /\ elements' = r.elements
                    /\ origin' = r.origin
                    /\ bufOrigin' = r.bufOrigin
                    /\ document' = Some(doc)
                    /\ calls' = calls \o <<"parseScreenplay", "generateFountain">>
                    /\ result' = Some(SuccessResult(doc, Warnings(doc, opts)))
    /\ pc' = "converted"
    /\ UNCHANGED <<opts, trace, pageIndex, earlier, output, readResult, runs>>
    /\ UNCHANGED otherVars

NextConvert ==
    \/ \E outcome \in ReadOutcomes : ReadPDF(outcome)
    \/ \E includeMetadata \in BOOLEAN : Convert(includeMetadata)

SpecConvert == InitConvert /\ [][NextConvert]_vars

\* vocabulary of the converter's properties
Converted == pc = "converted"

ConversionResult == result[1]

HasField(r, field) == field \in DOMAIN r

Extracted == readResult[1].content

ExtractionFailed == readResult # None /\ readResult[1].kind = "rejected"

(***************************************************************************)
(* Two invocations of parseScreenplay whose line steps are interleaved.    *)
(* Each invocation has its own state and elements (const state, const      *)
(* elements inside the function); the module-level regular expressions     *)
(* carry no g or y flag, so test() keeps nothing between calls.  Both are  *)
(* called without options.                                                 *)
(***************************************************************************)
\* Bound of the lines of one invocation
MaxRunLines == 2

Invocations == {1, 2}

RunLineChoices == {SceneLine, CharacterLine, PlainLine}

RunInputs == UNION { [1..n -> RunLineChoices] : n \in 1..MaxRunLines }

\* options ?? defaults
DefaultOptions ==
    [ detectSceneHeadings |-> TRUE, detectCharacterNames |-> TRUE,
      strictMode |-> FALSE ]

\* one invocation: its allLines, its loop index, its locals, what it returned;
\* overlapped records that it took a step while the other was under way
NewRun(lines) ==
    [ lines |-> lines, i |-> 1, locals |-> FreshLocals(<<>>),
      document |-> None, overlapped |-> FALSE ]

InitConcurrent ==
    /\ runs \in { <<NewRun(a), NewRun(b)>> : a \in RunInputs, b \in RunInputs }
    /\ opts = DefaultOptions
    /\ allLines = <<>>
    /\ state = InitialState
    /\ elements = <<>>
    /\ document = None
    /\ pc = "concurrent"
    /\ origin = <<>>
    /\ bufOrigin = <<>>
    /\ trace = <<>>
    /\ pages = <<>>
    /\ pageIndex = 0
    /\ earlier = None
    /\ output = None
    /\ readResult = None
    /\ result = None
    /\ calls = <<>>
    /\ verdicts = <<>>
    /\ reader = <<>>
    /\ batch = <<>>

\* locals that every invocation takes from the first one
SharedLocals(rs, id) == rs[1].locals

\* the state and elements an invocation works on: its own
LocalsOf(rs, id) == rs[id].locals

UnderWay(run) == run.i > 1 /\ run.document = None

Other(id) == 3 - id

\* one pass of the line loop of invocation id
StepRun(id) ==
    /\ pc = "concurrent"
    /\ runs[id].i <= Len(runs[id].lines)
    /\ LET run == runs[id]
       IN  runs' = [runs EXCEPT ![id] =
                       [run EXCEPT !.locals = LineStep(LocalsOf(runs, id),
                                                       run.lines[run.i], opts,
                                                       run.i),
                                   !.i = run.i + 1,
                                   !.overlapped =
                                       @ \/ UnderWay(runs[Other(id)])]]
    /\ UNCHANGED <<opts, allLines, state, elements, document, pc, origin,
                   bufOrigin, trace, pages, pageIndex, earlier, output,
                   readResult, result, calls>>
    /\ UNCHANGED otherVars

\* invocation id has consumed its lines: re-parse if needed, build, return
FinishRun(id) ==
    /\ pc = "concurrent"
    /\ runs[id].i > Len(runs[id].lines)
    /\ runs[id].document = None
    /\ LET r == Reparse(LocalsOf(runs, id), opts)
       IN  runs' = [runs EXCEPT ![id] =
                       [@ EXCEPT !.locals = r,
                                 !.document = Some(BuildDocument(r, TRUE)),
                                 !.overlapped = @ \/ UnderWay(runs[Other(id)])]]
    /\ UNCHANGED <<opts, allLines, state, elements, document, pc, origin,
                   bufOrigin, trace, pages, pageIndex, earlier, output,
                   readResult, result, calls>>
    /\ UNCHANGED otherVars

NextConcurrent ==
    \/ \E id \in Invocations : StepRun(id)
    \/ \E id \in Invocations : FinishRun(id)

SpecConcurrent == InitConcurrent /\ [][NextConcurrent]_vars

\* what an invocation returns when nothing else runs
Alone(lines, o) == BuildDocument(ParseLines(<<>>, lines, o), TRUE)

(***************************************************************************)
(* The three line predicates on their own: a trimmed line and a parser     *)
(* state are drawn, and each predicate is asked with strictMode on and off. *)
(***************************************************************************)
ElementTypes == {"null", "scene_heading", "transition", "character",
                 "dialogue", "action"}

InitPredicates ==
    /\ allLines \in { <<l>> : l \in {TrimTable[k] : k \in KnownLines} \ {<<>>} }
    /\ state \in { [InitialState EXCEPT !.currentElementType = t,
                                        !.inTitlePage = FALSE] :
                      t \in ElementTypes }
    /\ verdicts = <<>>
    /\ pc = "predicates"
    /\ opts = DefaultOptions
    /\ elements = <<>>
    /\ document = None
    /\ origin = <<>>
    /\ bufOrigin = <<>>
    /\ trace = <<>>
    /\ pages = <<>>
    /\ pageIndex = 0
    /\ earlier = None
    /\ output = None
    /\ readResult = None
    /\ result = None
    /\ calls = <<>>
    /\ runs = <<>>
    /\ reader = <<>>
    /\ batch = <<>>

\* what the predicates return for the line, per strictMode
Verdicts(line, st) ==
    [ strictMode \in BOOLEAN |->
        [ isSceneHeading |-> isSceneHeading(line, strictMode),
          isTransition |-> isTransition(line, strictMode),
          isCharacterName |-> isCharacterName(line, st, strictMode) ] ]

Evaluate ==
    /\ pc = "predicates"
    /\ verdicts' = Verdicts(allLines[1], state)
    /\ pc' = "evaluated"
    /\ UNCHANGED <<opts, allLines, state, elements, document, origin, bufOrigin,
                   trace, pages, pageIndex, earlier, output, readResult, result,
                   calls, runs, reader, batch>>

NextPredicates == Evaluate

SpecPredicates == InitPredicates /\ [][NextPredicates]_vars

(***************************************************************************)
(* batchCommand (src/cli/commands/batch.ts) and the file writer            *)
(***************************************************************************)

\* bound on the number of files the glob pattern matches
MaxFiles == 3

\* absolute paths fast-glob can return: directory, base name, extension
InputDirs == {"/s/a", "/s/b"}
BaseNames == {"x", "y"}
InputPaths == [dir : InputDirs, name : BaseNames, ext : {".pdf"}]

\* rendered Fountain texts
FountainTexts == {"T1", "T2"}

\* --output-dir, or the empty string when the option is absent
OutputDirs == {"", "out"}

\* the exit code of a process that has not exited
NotExited == -1

RECURSIVE DistinctSeqs(_, _)
\* the sequences of at most n distinct members of S, in any order
DistinctSeqs(S, n) ==
    IF n = 0 THEN {<<>>}
    ELSE LET shorter == DistinctSeqs(S, n - 1)
         IN shorter \cup
            UNION { { Append(s, p) : p \in S \ {s[k] : k \in DOMAIN s} } :
                      s \in {t \in shorter : Len(t) = n - 1} }

\* path.basename(inputPath, path.extname(inputPath)) + '.fountain', joined to
\* outputDir when there is one: the input's directory and extension are dropped
generateOutputPath(inputPath, outputDir) ==
    LET basename == inputPath.name
        outputName == <<basename, ".fountain">>
    IN IF outputDir # "" THEN [dir |-> outputDir, file |-> outputName]
                           ELSE [dir |-> ".", file |-> outputName]

\* fs.writeFile(outputPath, content): the file holds the content of its
\* latest writer; a write that fails may leave the old file or a truncated one
writeFountainFile(disk, outputPath, content, from, outcome) ==
    CASE outcome = "written" ->
           (outputPath :> [text |-> content, from |-> from, whole |-> TRUE]) @@ disk
      [] outcome = "truncated" ->
           (outputPath :> [text |-> content, from |-> from, whole |-> FALSE]) @@ disk
      [] OTHER -> disk

InitBatch ==
    /\ batch \in
         { [ validFiles |-> fs, outputDir |-> d, continueOnError |-> c,
             i |-> 0, pc |-> "finding", fountainText |-> "",
             results |-> [succeeded |-> 0, failed |-> 0, files |-> <<>>],
             exitCode |-> NotExited, summary |-> None, disk |-> <<>>,
             log |-> <<>>, rendered |-> <<>> ] :
             fs \in DistinctSeqs(InputPaths, MaxFiles),
             d \in OutputDirs, c \in BOOLEAN }
    /\ pc = "batch"
    /\ opts = DefaultOptions
    /\ allLines = <<>>
    /\ state = InitialState
    /\ elements = <<>>
    /\ document = None
    /\ origin = <<>>
    /\ bufOrigin = <<>>
    /\ trace = <<>>
    /\ pages = <<>>
    /\ pageIndex = 0
    /\ earlier = None
    /\ output = None
    /\ readResult = None
    /\ result = None
    /\ calls = <<>>
    /\ runs = <<>>
    /\ verdicts = <<>>
    /\ reader = <<>>

batchUnchanged ==
    UNCHANGED <<opts, allLines, state, elements, document, pc, origin, bufOrigin,
                trace, pages, pageIndex, earlier, output, readResult, result,
                calls, runs, verdicts, reader>>

\* process.exit(code): the process ends, nothing after it runs
Exit(b, code) == [b EXCEPT !.exitCode = code, !.pc = "exited"]

\* i++ and the loop test i < validFiles.length
NextFile(b) ==
    [b EXCEPT !.i = b.i + 1,
              !.fountainText = "",
              !.pc = IF b.i + 1 > Len(b.validFiles) THEN "summary" ELSE "convert"]

\* results.files.push({success: false}); results.failed++
CountFailure(b) ==
    [b EXCEPT !.results.failed = @ + 1,
              !.results.files = Append(@, [path |-> b.validFiles[b.i],
                                           success |-> FALSE])]

\* a variant that carries on after a failure whatever the option says
AfterFailureAlwaysContinues(b) == NextFile(CountFailure(b))

\* a failed file: counted, then if (!options.continueOnError) process.exit(1),
\* otherwise the next file
AfterFailure(b) ==
    IF ~b.continueOnError THEN Exit(CountFailure(b), 1)
                          ELSE NextFile(CountFailure(b))

\* a variant that always reports success
SummaryExitCodeZero(results) == 0

\* process.exit(results.failed > 0 ? 1 : 0)
SummaryExitCode(results) == IF results.failed > 0 THEN 1 ELSE 0

\* fg(pattern): no match ends the run with code 1 before any file is touched;
\* a rejected glob reaches the outer catch, which exits with code 1 as well
FindFiles(globFails) ==
    /\ pc = "batch"
    /\ batch.pc = "finding"
    /\ batch' = IF globFails \/ Len(batch.validFiles) = 0
                THEN Exit(batch, 1)
                ELSE [batch EXCEPT !.i = 1, !.pc = "convert"]
    /\ batchUnchanged

\* await convertPDFToFountain(filePath) and generateFountain(result.document):
\* a result without success, or an exception, counts the file as failed
ConvertFile(outcome, text) ==
    /\ pc = "batch"
    /\ batch.pc = "convert"
    /\ LET logged == [batch EXCEPT !.log = Append(@, <<"convert", batch.i>>)]
       IN batch' = IF outcome = "success"
                   THEN [logged EXCEPT !.fountainText = text,
                                       !.rendered = (batch.i :> text) @@ @,
                                       !.pc = "write"]
                   ELSE AfterFailure(logged)
    /\ batchUnchanged

\* generateOutputPath, await writeFountainFile, results.succeeded++; a rejected
\* write is caught and counts the file as failed
WriteFile(outcome) ==
    /\ pc = "batch"
    /\ batch.pc = "write"
    /\ LET filePath == batch.validFiles[batch.i]
           outputPath == generateOutputPath(filePath, batch.outputDir)
           logged == [batch EXCEPT
                        !.log = Append(@, <<"write", batch.i>>),
                        !.disk = writeFountainFile(@, outputPath,
                                     batch.fountainText, batch.i, outcome)]
       IN batch' = IF outcome = "written"
                   THEN NextFile([logged EXCEPT
                            !.results.succeeded = @ + 1,
                            !.results.files =
                                Append(@, [path |-> filePath, success |-> TRUE])])
                   ELSE AfterFailure(logged)
    /\ batchUnchanged

\* the summary and the exit code after the last file
Summary ==
    /\ pc = "batch"
    /\ batch.pc = "summary"
    /\ batch' = Exit([batch EXCEPT
                        !.summary = [succeeded |-> batch.results.succeeded,
                                     failed |-> batch.results.failed,
                                     total |-> Len(batch.validFiles)]],
                     SummaryExitCode(batch.results))
    /\ batchUnchanged

NextBatch ==
    \/ \E globFails \in BOOLEAN : FindFiles(globFails)
    \/ \E outcome \in {"success", "failure", "throws"}, text \in FountainTexts :
          ConvertFile(outcome, text)
    \/ \E outcome \in {"written", "untouched", "truncated"} : WriteFile(outcome)
    \/ Summary

\* every awaited promise settles, so the loop keeps taking steps until exit
SpecBatch == InitBatch /\ [][NextBatch]_vars /\ WF_vars(NextBatch)

(***************************************************************************)
(* readPDF (src/lib/pdf-reader.ts): the try / catch / finally around the   *)
(* PDF parser                                                              *)
(***************************************************************************)

ReaderPaths == {"a.pdf", "b.pdf"}

\* what a failing step throws: an Error whose message holds one of the texts
\* the catch block looks for, another Error, or a value that is no Error
ThrownValues ==
    [isError : {TRUE},
     message : {<<"ENOENT">>, <<"password">>, <<"Invalid PDF">>, <<"EACCES">>}]
       \cup {[isError |-> FALSE, message |-> <<"ENOENT">>]}

\* the texts parser.getText() can deliver, and whether getInfo() names a title
ExtractedTexts == {"", "INT. A"}

InitReader ==
    /\ reader \in { [ filePath |-> p, pc |-> "readFile", parser |-> "undefined",
                      constructed |-> FALSE, destroyCalls |-> 0,
                      text |-> "", hasTitle |-> FALSE,
                      completion |-> "running", value |-> None,
                      thrownAt |-> "nowhere" ] : p \in ReaderPaths }
    /\ pc = "reader"
    /\ opts = DefaultOptions
    /\ allLines = <<>>
    /\ state = InitialState
    /\ elements = <<>>
    /\ document = None
    /\ origin = <<>>
    /\ bufOrigin = <<>>
    /\ trace = <<>>
    /\ pages = <<>>
    /\ pageIndex = 0
    /\ earlier = None
    /\ output = None
    /\ readResult = None
    /\ result = None
    /\ calls = <<>>
    /\ runs = <<>>
    /\ verdicts = <<>>
    /\ batch = <<>>

readerUnchanged ==
    UNCHANGED <<opts, allLines, state, elements, document, pc, origin, bufOrigin,
                trace, pages, pageIndex, earlier, output, readResult, result,
                calls, runs, verdicts, batch>>

\* a step of the try block throws: control goes to the catch block
Throw(r, thrown) ==
    [r EXCEPT !.pc = "catch", !.completion = "throw", !.value = thrown,
              !.thrownAt = r.pc]

\* error.message.includes(part), a message being a sequence of its parts
MessageIncludes(message, part) == \E k \in DOMAIN message : message[k] = part

\* the catch block: an Error is replaced by a new Error whose message depends
\* on the text found in the old message; any other value is thrown again
Rewrap(thrown, filePath) ==
    IF thrown.isError
    THEN [isError |-> TRUE,
          message |->
             CASE MessageIncludes(thrown.message, "ENOENT") ->
                    <<"PDF file not found: ", filePath>>
               [] MessageIncludes(thrown.message, "password") ->
                    <<"PDF is password-protected and cannot be read: ", filePath>>
               [] MessageIncludes(thrown.message, "Invalid PDF") ->
                    <<"Invalid or corrupted PDF file: ", filePath>>
               [] OTHER -> <<"Failed to read PDF file: ">> \o thrown.message]
    ELSE thrown

\* a variant that cleans up only when the try block returned
NeedsDestroyOnReturn(r) == r.parser # "undefined" /\ r.completion = "return"

\* if (parser): the finally block destroys the parser when there is one
NeedsDestroy(r) == r.parser # "undefined"

\* await fs.readFile(filePath)
ReadFile(ok, thrown) ==
    /\ pc = "reader"
    /\ reader.pc = "readFile"
    /\ reader' = IF ok THEN [reader EXCEPT !.pc = "construct"]
                       ELSE Throw(reader, thrown)
    /\ readerUnchanged

\* parser = new PDFParse({ data }): the assignment happens only when the
\* constructor returns
Construct(ok, thrown) ==
    /\ pc = "reader"
    /\ reader.pc = "construct"
    /\ reader' = IF ok THEN [reader EXCEPT !.pc = "getText",
                                           !.parser = "PDFParse",
                                           !.constructed = TRUE]
                       ELSE Throw(reader, thrown)
    /\ readerUnchanged

\* await parser.getText()
GetText(ok, text, thrown) ==
    /\ pc = "reader"
    /\ reader.pc = "getText"
    /\ reader' = IF ok THEN [reader EXCEPT !.pc = "getInfo", !.text = text]
                       ELSE Throw(reader, thrown)
    /\ readerUnchanged

\* await parser.getInfo(), the metadata, parsePages and the return statement
GetInfo(ok, hasTitle, thrown) ==
    /\ pc = "reader"
    /\ reader.pc = "getInfo"
    /\ reader' = IF ok
                 THEN [reader EXCEPT
                         !.pc = "finally", !.hasTitle = hasTitle,
                         !.completion = "return",
                         !.value = [text |-> reader.text, hasMetadata |-> hasTitle]]
                 ELSE Throw(reader, thrown)
    /\ readerUnchanged

\* the catch block
Catch ==
    /\ pc = "reader"
    /\ reader.pc = "catch"
    /\ reader' = [reader EXCEPT !.pc = "finally",
                                !.value = Rewrap(@, reader.filePath)]
    /\ readerUnchanged

\* the finally block, after which the promise of readPDF settles: a rejected
\* destroy replaces the completion of the try or catch block
Finally(destroyOk, thrown) ==
    /\ pc = "reader"
    /\ reader.pc = "finally"
    /\ reader' =
          IF NeedsDestroy(reader)
          THEN IF destroyOk
               THEN [reader EXCEPT !.pc = "settled", !.destroyCalls = @ + 1]
               ELSE [reader EXCEPT !.pc = "settled", !.destroyCalls = @ + 1,
                                   !.completion = "throw", !.value = thrown]
          ELSE [reader EXCEPT !.pc = "settled"]
    /\ readerUnchanged

NextReader ==
    \/ \E ok \in BOOLEAN, thrown \in ThrownValues : ReadFile(ok, thrown)
    \/ \E ok \in BOOLEAN, thrown \in ThrownValues : Construct(ok, thrown)
    \/ \E ok \in BOOLEAN, text \in ExtractedTexts, thrown \in ThrownValues :
          GetText(ok, text, thrown)
    \/ \E ok \in BOOLEAN, hasTitle \in BOOLEAN, thrown \in ThrownValues :
          GetInfo(ok, hasTitle, thrown)
    \/ Catch
    \/ \E destroyOk \in BOOLEAN, thrown \in ThrownValues :
          Finally(destroyOk, thrown)

\* every awaited promise settles
SpecReader == InitReader /\ [][NextReader]_vars /\ WF_vars(NextReader)

(***************************************************************************)
(* Vocabulary of the properties                                            *)
(***************************************************************************)
Trimmed(i) == TrimTable[allLines[i]]

IsMarker(i) == allLines[i] = PAGE_BREAK

IsBlank(i) == ~IsMarker(i) /\ Trimmed(i) = <<>>

IsPageNo(i) == ~IsMarker(i) /\ ~IsBlank(i) /\ isPageNumber(Trimmed(i))

\* a source line that is not blank, not a page number, not the marker
ContentLine(i) == ~IsMarker(i) /\ ~IsBlank(i) /\ ~IsPageNo(i)

\* the elements that came from line i
ElementsOf(i) == {j \in DOMAIN elements : origin[j].line = i}

Returned == pc = "done"

TitlePageAttached == Returned /\ document[1].titlePage # None

\* line i is one of the lines the attached title page was built from
InTitlePage(i) ==
    TitlePageAttached /\ \E k \in DOMAIN bufOrigin : bufOrigin[k] = i

(***************************************************************************)
(* C1: every source line that is not blank, not a page number and not the  *)
(* page-break marker yields exactly one element of the returned document.  *)
(* As stated this fails: the lines collected before the first scene        *)
(* heading go to the title page and yield no element.                      *)
(***************************************************************************)
C1_ExactlyOneElementPerLine ==
    Returned =>
        \A i \in DOMAIN allLines :
            ContentLine(i) => Cardinality(ElementsOf(i)) = 1

\* C1 as amended: every such line yields exactly one element of the
\* returned document, except the lines the attached title page was built
\* from, which yield none.
C1_OneElementOrTitlePage ==
    Returned =>
        /\ document[1].elements = elements
        /\ \A i \in DOMAIN allLines :
               ContentLine(i) =>
                   Cardinality(ElementsOf(i)) = IF InTitlePage(i) THEN 0 ELSE 1

C1_Witness ==
    /\ TitlePageAttached
    /\ \E i, k \in DOMAIN allLines :
           /\ ContentLine(i) /\ InTitlePage(i) /\ ElementsOf(i) = {}
           /\ ContentLine(k) /\ ~InTitlePage(k)
           /\ Cardinality(ElementsOf(k)) = 1

(***************************************************************************)
(* C2: no blank line and no page-number line ever produces an element, in  *)
(* any phase; every element other than a page_break has non-empty text.    *)
(* The code breaks this when the 15-line budget is exceeded: the blank     *)
(* entries of the title-page buffer are flushed as empty action elements.  *)
(***************************************************************************)
C2_NoElementFromBlankLine ==
    \A j \in DOMAIN elements :
        /\ ~IsBlank(origin[j].line)
        /\ ~IsPageNo(origin[j].line)
        /\ elements[j].type # "page_break" => elements[j].text # <<>>

(***************************************************************************)
(* C3: elements preserve source order: the element of an earlier line      *)
(* comes before the element of a later line, notes and page breaks met     *)
(* during title-page accumulation included, and every element carries the  *)
(* text of its own line only.  The code breaks the order: the collected    *)
(* lines are emitted (by the flush or by the re-parse) after the notes and *)
(* page breaks that followed them.                                         *)
(***************************************************************************)
C3_SourceOrder ==
    /\ \A j, k \in DOMAIN elements :
           j < k => origin[j].line < origin[k].line
    /\ \A j \in DOMAIN elements :
           elements[j].text = IF elements[j].type = "page_break" THEN <<>>
                              ELSE Trimmed(origin[j].line)

(***************************************************************************)
(* C4: a title page is attached to the returned document only if a scene   *)
(* heading was found after the collected leading lines (sceneCount > 0);   *)
(* otherwise the document has no titlePage.                                *)
(***************************************************************************)
C4_TitlePageOnlyAfterScene ==
    TitlePageAttached =>
        /\ state.sceneCount > 0
        /\ \E j \in DOMAIN elements :
               /\ elements[j].type = "scene_heading"
               /\ \A k \in DOMAIN bufOrigin : bufOrigin[k] < origin[j].line

C4_Witness ==
    /\ TitlePageAttached
    /\ \E i \in DOMAIN allLines : ContentLine(i) /\ InTitlePage(i)
    /\ \E j \in DOMAIN elements : elements[j].type = "scene_heading"

(***************************************************************************)
(* C5: if the first line that is not blank, not a page number and not a    *)
(* note is a scene heading, the returned document has no title page.  The  *)
(* code breaks this: a blank line before the first scene heading is        *)
(* collected, and the title page built from it is attached.                *)
(***************************************************************************)
IsNoteLine(i) == ContentLine(i) /\ NOTE_REGEX(Trimmed(i))

C5_NoTitlePageWhenSceneFirst ==
    Returned =>
        \A i \in DOMAIN allLines :
            ( /\ trace[i].outcome = "scene_heading"
              /\ \A h \in 1..(i - 1) : IsBlank(h) \/ IsPageNo(h) \/ IsNoteLine(h) )
            => document[1].titlePage = None

(***************************************************************************)
(* C6: collected leading lines are never lost or duplicated.  When no line *)
(* of the input is a scene heading, the document has no title page and     *)
(* every non-blank collected line reappears exactly once among the         *)
(* elements, as character, dialogue, parenthetical, transition or action;  *)
(* for any input, a collected line is never both part of the attached      *)
(* title page and emitted as an element.                                   *)
(***************************************************************************)
WasCollected(i) == trace[i].outcome = "buffered"

NoSceneHeading == \A i \in DOMAIN trace : trace[i].outcome # "scene_heading"

ReclassifiedKinds ==
    {"character", "dialogue", "parenthetical", "transition", "action"}

C6_CollectedLinesKept ==
    Returned =>
        /\ NoSceneHeading =>
              /\ document[1].titlePage = None
              /\ \A i \in DOMAIN allLines :
                     WasCollected(i) =>
                         /\ Cardinality(ElementsOf(i)) = 1
                         /\ \A j \in ElementsOf(i) :
                                /\ elements[j].type \in ReclassifiedKinds
                                /\ elements[j].text = Trimmed(i)
        /\ \A i \in DOMAIN allLines :
               /\ InTitlePage(i) => ElementsOf(i) = {}
               /\ WasCollected(i) =>
                      Cardinality(ElementsOf(i)) = IF InTitlePage(i) THEN 0 ELSE 1

C6_Witness ==
    /\ Returned
    /\ NoSceneHeading
    /\ \E i, k \in DOMAIN allLines :
           /\ i < k /\ WasCollected(i) /\ WasCollected(k)
           /\ \E j \in ElementsOf(i) : elements[j].type = "character"
           /\ \E j \in ElementsOf(k) : elements[j].type = "dialogue"

(***************************************************************************)
(* C7: in the main pass every classified line (not blank, not a page       *)
(* number, not collected for the title page) receives the first kind, in   *)
(* the order note, scene_heading, transition, parenthetical (only when     *)
(* dialogue is expected), character, dialogue (only when dialogue is       *)
(* expected), action, whose predicate the line satisfies in the state the  *)
(* parser is in when it reads the line.                                    *)
(***************************************************************************)
Classified(i) == ContentLine(i) /\ trace[i].outcome # "buffered"

FirstKind(i) ==
    LET t == Trimmed(i)
        st == [currentElementType |-> trace[i].current]
    IN  IF NOTE_REGEX(t) THEN "note"
        ELSE IF opts.detectSceneHeadings /\ isSceneHeading(t, opts.strictMode)
        THEN "scene_heading"
        ELSE IF isTransition(t, opts.strictMode) THEN "transition"
        ELSE IF trace[i].expecting /\ PARENTHETICAL_REGEX(t)
        THEN "parenthetical"
        ELSE IF opts.detectCharacterNames
                /\ isCharacterName(t, st, opts.strictMode)
        THEN "character"
        ELSE IF trace[i].expecting THEN "dialogue"
        ELSE "action"

C7_FirstMatchingKind ==
    \A i \in DOMAIN trace : Classified(i) => trace[i].outcome = FirstKind(i)

C7_Witness ==
    \E i, k \in DOMAIN trace :
        /\ Classified(i) /\ Classified(k)
        /\ isTransition(Trimmed(i), opts.strictMode)
        /\ trace[i].outcome = "scene_heading"
        /\ trace[k].expecting
        /\ trace[k].outcome = "character"

(***************************************************************************)
(* C8: at every point of the main pass expectingDialogue is true exactly   *)
(* when a character element has been emitted and no blank line, scene      *)
(* heading line or transition line has been processed since the latest     *)
(* one; parenthetical, dialogue, note, page-number and page-break lines    *)
(* leave it unchanged.                                                     *)
(***************************************************************************)
\* expectingDialogue after the first i lines of the main pass
ExpectingAfter(i) ==
    IF i < Len(trace) THEN trace[i + 1].expecting ELSE state.expectingDialogue

EndsDialogue(i) == trace[i].outcome \in {"blank", "scene_heading", "transition"}

KeepsDialogue(i) ==
    trace[i].outcome \in {"parenthetical", "dialogue", "note", "page_break", "skipped"}

C8_ExpectingDialogue ==
    pc = "main" =>
        /\ \A i \in 0..Len(trace) :
               ExpectingAfter(i) <=>
                   \E c \in 1..i :
                       /\ trace[c].outcome = "character"
                       /\ \A h \in (c + 1)..i : ~EndsDialogue(h)
        /\ \A i \in DOMAIN trace :
               KeepsDialogue(i) => ExpectingAfter(i) = trace[i].expecting

C8_Witness ==
    /\ pc = "main"
    /\ \E c, b \in DOMAIN trace :
           /\ c < b
           /\ trace[c].outcome = "character"
           /\ trace[b].outcome = "blank"
           /\ trace[b].expecting
           /\ ~ExpectingAfter(b)

(***************************************************************************)
(* C9: a line is emitted as dialogue or parenthetical only if              *)
(* expectingDialogue is true when the line is processed; each such line    *)
(* yields its own element; a line that matches no special predicate while  *)
(* expectingDialogue is false is emitted as action.                        *)
(***************************************************************************)
NoSpecialPredicate(i) ==
    LET t == Trimmed(i)
        st == [currentElementType |-> trace[i].current]
    IN  /\ ~NOTE_REGEX(t)
        /\ ~(opts.detectSceneHeadings /\ isSceneHeading(t, opts.strictMode))
        /\ ~isTransition(t, opts.strictMode)
        /\ ~(opts.detectCharacterNames /\ isCharacterName(t, st, opts.strictMode))

C9_DialogueOnlyWhenExpected ==
    /\ \A j \in DOMAIN elements :
           elements[j].type \in {"dialogue", "parenthetical"} =>
               /\ origin[j].expecting
               /\ elements[j].text = Trimmed(origin[j].line)
               /\ \A k \in DOMAIN elements :
                      origin[k].line = origin[j].line => k = j
    /\ \A i \in DOMAIN trace :
           /\ trace[i].outcome \in {"dialogue", "parenthetical"}
                  => trace[i].expecting
           /\ (Classified(i) /\ ~trace[i].expecting /\ NoSpecialPredicate(i))
                  => trace[i].outcome = "action"

C9_Witness ==
    \E j \in DOMAIN elements :
        /\ j + 1 \in DOMAIN elements
        /\ elements[j].type = "dialogue"
        /\ elements[j + 1].type = "dialogue"
        /\ origin[j + 1].line = origin[j].line + 1

(***************************************************************************)
(* C10: with detectSceneHeadings = false no scene_heading element is       *)
(* emitted, no title page is attached, no non-blank line is collected as   *)
(* title-page content, and a line that matches the scene-heading pattern   *)
(* is emitted as another kind.  The claim names that kind as action when   *)
(* no dialogue is expected; this fails for a line that also satisfies the  *)
(* transition predicate, which is emitted as transition.                   *)
(***************************************************************************)
ScenePatternLine(i) == ContentLine(i) /\ SCENE_HEADING_REGEX(Trimmed(i))

C10_ScenePatternLineIsAction ==
    ~opts.detectSceneHeadings =>
        \A i \in DOMAIN trace :
            ScenePatternLine(i) =>
                /\ trace[i].outcome # "scene_heading"
                /\ ~trace[i].expecting => trace[i].outcome = "action"

C10_DetectionOff ==
    ~opts.detectSceneHeadings =>
        /\ \A j \in DOMAIN elements : elements[j].type # "scene_heading"
        /\ Returned => document[1].titlePage = None
        /\ \A i \in DOMAIN trace : trace[i].outcome # "buffered"
        /\ \A k \in DOMAIN bufOrigin : IsBlank(bufOrigin[k])
        /\ \A i \in DOMAIN trace :
               ScenePatternLine(i) =>
                   trace[i].outcome =
                       IF isTransition(Trimmed(i), opts.strictMode)
                       THEN "transition"
                       ELSE IF trace[i].expecting THEN "dialogue"
                       ELSE "action"

C10_Witness ==
    /\ ~opts.detectSceneHeadings
    /\ Returned
    /\ \E i, k \in DOMAIN trace :
           /\ ScenePatternLine(i) /\ ~trace[i].expecting
           /\ trace[i].outcome = "transition"
           /\ ScenePatternLine(k) /\ ~trace[k].expecting
           /\ trace[k].outcome = "action"

(***************************************************************************)
(* C11: with detectCharacterNames = false no character element is emitted, *)
(* expectingDialogue is never true, no dialogue or parenthetical element   *)
(* is emitted, and every line that would have been a character cue and is  *)
(* emitted is emitted as action.                                           *)
(***************************************************************************)
\* line i satisfies the character-cue predicate
CueLine(i) ==
    ContentLine(i) /\ isCharacterName(Trimmed(i), InitialState, opts.strictMode)

C11_CharacterDetectionOff ==
    ~opts.detectCharacterNames =>
        /\ \A j \in DOMAIN elements :
               /\ elements[j].type \notin {"character", "dialogue", "parenthetical"}
               /\ ~origin[j].expecting
               /\ CueLine(origin[j].line) => elements[j].type = "action"
        /\ ~state.expectingDialogue
        /\ state.lastCharacterName = None
        /\ \A i \in DOMAIN trace : ~trace[i].expecting

C11_Witness ==
    /\ ~opts.detectCharacterNames
    /\ \E i, k \in DOMAIN trace :
           /\ CueLine(i) /\ CueLine(k)
           /\ WasCollected(i)
           /\ trace[k].outcome = "action"
           /\ \E j \in ElementsOf(i) : elements[j].type = "action"
           /\ \E j \in ElementsOf(k) : elements[j].type = "action"

(***************************************************************************)
(* C12: for every sequence of n >= 1 pages, also when the pageNumber       *)
(* values are not 1..n, one page-break marker is inserted between each     *)
(* pair of adjacent pages and none after the last page, so the document    *)
(* has exactly n - 1 page_break elements.  The code breaks this: the       *)
(* marker is inserted when pageNumber < n, which fails for a page whose    *)
(* number is n or more and that is not the last page.                      *)
(***************************************************************************)
PageBreakElements == {j \in DOMAIN elements : elements[j].type = "page_break"}

C12_OnePageBreakBetweenPages ==
    (Returned /\ Len(pages) >= 1) =>
        /\ Cardinality(PageBreakElements) = Len(pages) - 1
        /\ allLines[Len(allLines)] # PAGE_BREAK

(***************************************************************************)
(* C13: processing a page-break marker, a page-number line or a note line  *)
(* leaves the whole parser state unchanged (expectingDialogue,             *)
(* lastCharacterName, currentElementType, inTitlePage, titlePageLines,     *)
(* sceneCount), so a dialogue block continues across them.                 *)
(***************************************************************************)
\* the step consumes one line, and that line is a marker, a page number or
\* a note
ConsumesNeutralLine ==
    /\ pc = "main" /\ pc' = "main"
    /\ Len(allLines') = Len(allLines) + 1
    /\ LET line == allLines'[Len(allLines')]
           trimmedLine == TrimTable[line]
       IN  \/ line = PAGE_BREAK
           \/ trimmedLine # <<>> /\ isPageNumber(trimmedLine)
           \/ trimmedLine # <<>> /\ NOTE_REGEX(trimmedLine)

C13_NeutralLinesKeepState ==
    [][ConsumesNeutralLine => state' = state]_vars

C13_Witness ==
    \E i \in DOMAIN trace :
        /\ i + 2 \in DOMAIN trace
        /\ trace[i].outcome = "character"
        /\ trace[i + 1].outcome \in {"page_break", "note", "skipped"}
        /\ trace[i + 1].expecting
        /\ trace[i + 2].expecting
        /\ trace[i + 2].outcome = "dialogue"
        /\ state.lastCharacterName # None

(***************************************************************************)
(* C14: parsing is deterministic: a second parse of the same pages with    *)
(* the same options returns the same elements (kinds and texts) and the    *)
(* same title page as the first, whatever the first parse left behind.     *)
(***************************************************************************)
ParsedTwice == pc = "again"

C15_BufferWithinCap == Len(state.titlePageLines) <= TitlePageCap

(***************************************************************************)
(* C16: the rendered string ends with exactly one newline, with no         *)
(* trailing blank line or other whitespace before it; a document with no   *)
(* elements, no title page and no metadata renders as the one-character    *)
(* string made of a newline.                                               *)
(***************************************************************************)
EmptyDocument(doc) ==
    doc.elements = <<>> /\ doc.titlePage = None /\ doc.metadata = None

C16_OneTrailingNewline ==
    Rendered =>
        LET out == output[1]
        IN  /\ Len(out) >= 1
            /\ out[Len(out)] = "\n"
            /\ Len(out) > 1 => ~IsSpace(out[Len(out) - 1])
            /\ EmptyDocument(RenderedDoc) => out = NL

C16_Witness ==
    /\ Rendered
    /\ Len(RenderedDoc.elements) = MaxElements
    /\ RenderedDoc.elements[MaxElements].text = BlankLine
    /\ RenderedDoc.elements[MaxElements].type = "action"
    /\ RenderedDoc.metadata = None
    /\ Len(output[1]) > 1

(***************************************************************************)
(* C17: in the rendered output a dialogue directly after a character, a    *)
(* parenthetical after any element, and a dialogue directly after a        *)
(* parenthetical start on the line right after the previous element's      *)
(* line: one newline and no blank line separates the two texts.  The code  *)
(* breaks this: the previous element's line already ends with a newline    *)
(* and the spacing adds a second one.                                      *)
(***************************************************************************)
\* the kinds of a pair of adjacent elements that is to be set tight
TightPair(prev, element) ==
    \/ element.type = "dialogue" /\ prev.type = "character"
    \/ element.type = "parenthetical"
    \/ element.type = "dialogue" /\ prev.type = "parenthetical"

C17_TightPairsOnAdjacentLines ==
    ( /\ Rendered
      /\ RenderedDoc.titlePage = None
      /\ Len(RenderedDoc.elements) >= 2
      /\ TightPair(RenderedDoc.elements[1], RenderedDoc.elements[2])
      /\ trim(Body(RenderedDoc.elements[1])) # <<>>
      /\ trim(Body(RenderedDoc.elements[2])) # <<>> )
    => startsWith(output[1],
                  Body(RenderedDoc.elements[1]) \o NL
                      \o Body(RenderedDoc.elements[2]) \o NL)

(***************************************************************************)
(* C18: the renderer puts the 2-newline prefix before a character element  *)
(* unless the previous element is itself a character; before a character   *)
(* that directly follows a character no 2-newline separator is inserted.   *)
(* The code breaks this: that pair falls through to the default spacing,   *)
(* which is two newlines.                                                  *)
(***************************************************************************)
C18_NoSeparatorBetweenCharacters ==
    Rendered =>
        \A i \in 2..Len(RenderedDoc.elements) :
            LET element == RenderedDoc.elements[i]
                prev == RenderedDoc.elements[i - 1]
            IN  element.type = "character" =>
                    ( getSpacingBefore(element, Some(prev)) = NL \o NL
                          <=> prev.type # "character" )

(***************************************************************************)
(* C19: rendering never double-wraps: a parenthetical already in           *)
(* parentheses, a note already in [[ ]], a transition already prefixed     *)
(* with '>', a section starting with '#' and a synopsis starting with '='  *)
(* get no second wrapper or prefix.  The claim adds that the formatter     *)
(* applied to its own output text changes nothing; this fails for a        *)
(* transition, section or synopsis with empty text, whose output '> ',     *)
(* '# ' or '= ' loses its trailing space the second time.                  *)
(***************************************************************************)
WrapKinds == {"parenthetical", "note", "transition", "section", "synopsis"}

\* the formatter of the element's kind applied to its own output text
FormattedTwice(element) ==
    formatByType([element EXCEPT !.text = formatByType(element)])

\* the trimmed text already carries the wrapper or prefix of its kind
AlreadyWrapped(element) ==
    LET text == trim(element.text)
    IN  CASE element.type = "parenthetical" ->
                 startsWith(text, <<"(">>) /\ endsWith(text, <<")">>)
          [] element.type = "note" ->
                 startsWith(text, <<"[", "[">>) /\ endsWith(text, <<"]", "]">>)
          [] element.type = "transition" -> startsWith(text, <<">">>)
          [] element.type = "section" -> startsWith(text, <<"#">>)
          [] element.type = "synopsis" -> startsWith(text, <<"=">>)
          [] OTHER -> FALSE

WrapElements ==
    {RenderedDoc.elements[i] : i \in DOMAIN RenderedDoc.elements}
        \cap {e \in ElementChoices : e.type \in WrapKinds}

C19_FormatterIdempotent ==
    Rendered =>
        \A element \in WrapElements :
            FormattedTwice(element) = formatByType(element)

C19_NoSecondWrapper ==
    Rendered =>
        \A element \in WrapElements :
            /\ AlreadyWrapped(element) =>
                   Body(element) = IF element.type = "transition"
                                   THEN toUpperCase(trim(element.text))
                                   ELSE trim(element.text)
            /\ FormattedTwice(element) = trim(formatByType(element)) \o NL
            /\ (element.type \in {"parenthetical", "note"}
                    \/ trim(element.text) # <<>>)
                   => FormattedTwice(element) = formatByType(element)

C19_Witness ==
    /\ Rendered
    /\ \E e1, e2 \in WrapElements :
           /\ e1.type = "parenthetical" /\ AlreadyWrapped(e1)
           /\ e2.type = "note" /\ AlreadyWrapped(e2)
           /\ output[1] = e1.text \o NL \o NL \o NL \o e2.text \o NL

(***************************************************************************)
(* C20: every line the classifier accepts as a scene heading is rendered   *)
(* as-is, without a leading '.'; only text that matches none of the        *)
(* classifier's prefixes gets the '.' prefix.  The code breaks this: the   *)
(* renderer's prefix test has no EST alternative, so an EST heading is     *)
(* rendered with the '.' prefix.                                           *)
(***************************************************************************)
C20_AcceptedHeadingsRenderedAsIs ==
    Rendered =>
        \A i \in DOMAIN RenderedDoc.elements :
            LET element == RenderedDoc.elements[i]
                text == trim(element.text)
            IN  element.type = "scene_heading" =>
                    Body(element) = IF MatchSceneHeading(text) THEN text
                                    ELSE <<".">> \o text

(***************************************************************************)
(* C21: the renderer emits, in this order and with nothing reordered, the  *)
(* title-page block (when present), every element in document order, and   *)
(* the metadata note (when present); the note is after the last element    *)
(* and the title page before the first.                                    *)
(***************************************************************************)
\* the elements from the k-th on, each with its spacing, first to last
RECURSIVE ElementsInOrder(_, _)
ElementsInOrder(els, k) ==
    IF k > Len(els) THEN <<>>
    ELSE formatElement(els[k], IF k > 1 THEN Some(els[k - 1]) ELSE None)
             \o ElementsInOrder(els, k + 1)

TitleBlock(doc) ==
    IF doc.titlePage # None THEN formatTitlePage(doc.titlePage[1]) ELSE <<>>

MetadataBlock(doc) ==
    IF doc.metadata # None THEN formatMetadata(doc.metadata[1]) ELSE <<>>

C21_RenderOrder ==
    Rendered =>
        LET doc == RenderedDoc
            out == output[1]
            middle == ElementsInOrder(doc.elements, 1)
        IN  /\ startsWith(out, trimEnd(TitleBlock(doc)))
            /\ endsWith(out, MetadataBlock(doc))
            /\ out = trim( TitleBlock(doc)
                           \o (IF doc.titlePage # None THEN NL \o NL ELSE <<>>)
                           \o middle
                           \o (IF doc.metadata # None THEN NL \o NL ELSE <<>>)
                           \o MetadataBlock(doc) ) \o NL

C21_Witness ==
    /\ Rendered
    /\ RenderedDoc.titlePage # None
    /\ RenderedDoc.metadata # None
    /\ Len(RenderedDoc.elements) = MaxElements
    /\ RenderedDoc.elements[1].type = "scene_heading"
    /\ RenderedDoc.elements[MaxElements].type = "action"
    /\ RenderedDoc.elements[MaxElements].text = PlainLine

(***************************************************************************)
(* C22: every result of convertPDFToFountain has one of two shapes: a      *)
(* success with a document and no errors field, or a failure with a        *)
(* non-empty errors list and neither a document nor warnings.              *)
(***************************************************************************)
SuccessShape(r) ==
    /\ r.success
    /\ HasField(r, "document")
    /\ ~HasField(r, "errors")

FailureShape(r) ==
    /\ ~r.success
    /\ HasField(r, "errors")
    /\ Len(r.errors) > 0
    /\ ~HasField(r, "document")
    /\ ~HasField(r, "warnings")

C22_TwoResultShapes ==
    /\ Converted => result # None
    /\ result # None =>
          /\ SuccessShape(ConversionResult) \/ FailureShape(ConversionResult)
          /\ ~(HasField(ConversionResult, "document")
               /\ HasField(ConversionResult, "errors"))

\* both shapes occur: here a success that also carries warnings
C22_Witness ==
    /\ Converted
    /\ SuccessShape(ConversionResult)
    /\ HasField(ConversionResult, "warnings")
    /\ ConversionResult.document = document[1]

(***************************************************************************)
(* C23: when the extracted text is empty or whitespace-only, or the page   *)
(* list is empty, convertPDFToFountain returns a failure with exactly one  *)
(* error and no document, and neither parseScreenplay nor generateFountain *)
(* is called.                                                              *)
(***************************************************************************)
InputEmpty ==
    /\ readResult # None
    /\ readResult[1].kind = "resolved"
    /\ \/ trim(Extracted.text) = <<>>
       \/ Len(Extracted.pages) = 0

C23_EmptyInputFailsBeforeParsing ==
    (Converted /\ InputEmpty) =>
        /\ ~ConversionResult.success
        /\ Len(ConversionResult.errors) = 1
        /\ ~HasField(ConversionResult, "document")
        /\ document = None
        /\ \A k \in DOMAIN calls :
              calls[k] \notin {"parseScreenplay", "generateFountain"}

\* whitespace-only text that comes with a page all the same
C23_Witness ==
    /\ Converted
    /\ Extracted.text = BlankText
    /\ Len(Extracted.pages) > 0
    /\ ConversionResult = FailureResult(EmptyTextError)
    /\ calls = <<"readPDF">>

(***************************************************************************)
(* C24: when readPDF rejects, convertPDFToFountain still resolves, to a    *)
(* failure result whose errors list has exactly one entry.  As claimed,    *)
(* the entry is the message of whatever readPDF rejected with.             *)
(***************************************************************************)
ExtractionError == readResult[1].error

C24_MessageUnmodified ==
    (Converted /\ ExtractionFailed) =>
        /\ result # None
        /\ FailureShape(ConversionResult)
        /\ ConversionResult.errors = <<ExtractionError.message>>

\* C24 as the code has it: the entry is the message when readPDF rejected
\* with an Error instance, and the fixed text for any other rejected value
C24_MessageOfErrorInstances ==
    (Converted /\ ExtractionFailed) =>
        /\ result # None
        /\ FailureShape(ConversionResult)
        /\ Len(ConversionResult.errors) = 1
        /\ ExtractionError.isError =>
              ConversionResult.errors[1] = ExtractionError.message
        /\ ~ExtractionError.isError =>
              ConversionResult.errors[1] = UnknownError

C24_Witness ==
    /\ Converted
    /\ ExtractionFailed
    /\ ExtractionError.isError
    /\ ConversionResult.errors = <<NotFoundMessage>>
    /\ calls = <<"readPDF">>

(***************************************************************************)
(* C25: with non-empty text and at least one page the conversion succeeds; *)
(* zero elements, zero scene headings (detection on), zero characters      *)
(* (detection on) and zero dialogue each add their warning, and the        *)
(* warnings field is present exactly when a warning was raised.            *)
(***************************************************************************)
InputPresent ==
    /\ readResult # None
    /\ readResult[1].kind = "resolved"
    /\ trim(Extracted.text) # <<>>
    /\ Len(Extracted.pages) > 0

WarningsOf(r) == IF HasField(r, "warnings") THEN r.warnings ELSE <<>>

Warned(r, warning) == \E k \in DOMAIN WarningsOf(r) : WarningsOf(r)[k] = warning

NoElementOfType(doc, type) ==
    \A k \in DOMAIN doc.elements : doc.elements[k].type # type

C25_SoftFindingsWarn ==
    (Converted /\ InputPresent) =>
        /\ ConversionResult.success
        /\ HasField(ConversionResult, "document")
        /\ LET doc == ConversionResult.document
               r == ConversionResult
           IN  /\ Len(doc.elements) = 0 => Warned(r, NoElementsWarning)
               /\ (NoElementOfType(doc, "scene_heading")
                   /\ opts.detectSceneHeadings)
                      => Warned(r, NoSceneHeadingsWarning)
               /\ (NoElementOfType(doc, "character")
                   /\ opts.detectCharacterNames)
                      => Warned(r, NoCharactersWarning)
               /\ NoElementOfType(doc, "dialogue")
                      => Warned(r, NoDialogueWarning)
               /\ HasField(r, "warnings") <=> Len(WarningsOf(r)) > 0

(***************************************************************************)
(* C26: when the steps of two parseScreenplay invocations are interleaved  *)
(* in any order, each invocation returns the elements and the title page   *)
(* it returns when it runs alone.                                          *)
(***************************************************************************)
C26_InterleavedParsesAgreeWithAlone ==
    \A id \in DOMAIN runs :
        runs[id].document # None =>
            LET returned == runs[id].document[1]
                alone == Alone(runs[id].lines, opts)
            IN  /\ returned.elements = alone.elements
                /\ returned.titlePage = alone.titlePage

\* both invocations have returned, each took steps while the other was under
\* way, the inputs differ, and one of them has a title page
C26_Witness ==
    /\ runs # <<>>
    /\ \A id \in DOMAIN runs :
          /\ runs[id].document # None
          /\ runs[id].overlapped
          /\ Len(runs[id].lines) = MaxRunLines
    /\ runs[1].lines # runs[2].lines
    /\ runs[1].document[1].titlePage # None
    /\ runs[2].document[1].titlePage = None

(***************************************************************************)
(* C27: in the title page built from the buffered lines, the leading lines *)
(* before the first recognized field line are contained in the final title *)
(* value, in order and joined by single spaces, whatever field lines       *)
(* follow them.                                                            *)
(***************************************************************************)
FieldsOf(line) ==
    {k \in DOMAIN fields : startsWith(toLowerCase(line), fields[k])
                              /\ ":" \in Range(line)}

IsFieldLine(line) == FieldsOf(line) # {}

IsTitleFieldLine(line) == IsFieldLine(line) /\ 1 \in FieldsOf(line)

\* the buffered lines before the first field line
LeadingLines(buffer) ==
    LET fieldAt == {k \in DOMAIN buffer : IsFieldLine(buffer[k])}
        stop == IF fieldAt = {} THEN Len(buffer) + 1
                ELSE CHOOSE k \in fieldAt : \A j \in fieldAt : k <= j
    IN  SubSeq(buffer, 1, stop - 1)

Contains(text, part) ==
    \E k \in 0..(Len(text) - Len(part)) :
        SubSeq(text, k + 1, k + Len(part)) = part

TitleOf(tp) == IF "title" \in DOMAIN tp THEN tp["title"] ELSE <<>>

RECURSIVE DropEmptyFront(_)
DropEmptyFront(lines) ==
    IF lines # <<>> /\ Head(lines) = <<>> THEN DropEmptyFront(Tail(lines))
    ELSE lines

TitleFieldFollows(buffer) ==
    \E k \in DOMAIN buffer : IsTitleFieldLine(buffer[k])

Accumulated(j) ==
    trace[j].inTitlePage /\ trace[j].outcome \in {"buffered", "blank"}

AccumulatedBefore(n) == {j \in 1..(n - 1) : Accumulated(j)}

InTitlePageAfter(n) ==
    IF n < Len(trace) THEN trace[n + 1].inTitlePage ELSE state.inTitlePage

\* line n left title-page mode by the flush branch
Flushed(n) ==
    /\ opts.detectSceneHeadings
    /\ trace[n].inTitlePage
    /\ ~InTitlePageAfter(n)
    /\ trace[n].outcome # "scene_heading"

\* what a flush leaves behind
FlushShape ==
    \A n \in DOMAIN trace :
        Flushed(n) =>
            /\ \A j \in AccumulatedBefore(n) :
                  /\ Cardinality(ElementsOf(j)) = 1
                  /\ \A e \in ElementsOf(j) :
                        /\ elements[e].type = "action"
                        /\ elements[e].text = Trimmed(j)
            /\ \A j1, j2 \in AccumulatedBefore(n) :
                  j1 < j2 => \A e1 \in ElementsOf(j1), e2 \in ElementsOf(j2) :
                                 e1 < e2
            /\ state.titlePageLines = <<>>
            /\ ~state.inTitlePage
            /\ Returned => document[1].titlePage = None

\* as claimed: the buffer never holds 15 entries once a line step is over
C28_FlushWithFifteenthLine ==
    /\ state.inTitlePage => Len(state.titlePageLines) < TitlePageCap
    /\ FlushShape

\* C28 as the code has it: the flush comes with the first line that would
\* be collected while the buffer already holds 15 entries or more
C28_FlushOnLineAfterCap ==
    /\ \A n \in DOMAIN trace :
          /\ Flushed(n) => Cardinality(AccumulatedBefore(n)) >= TitlePageCap
          /\ (trace[n].inTitlePage /\ trace[n].outcome = "buffered")
                => Cardinality(AccumulatedBefore(n)) < TitlePageCap
    /\ FlushShape

\* a flush, a scene heading after it, and a document without title page
C28_Witness ==
    /\ Returned
    /\ \E n \in DOMAIN trace :
          /\ Flushed(n)
          /\ Cardinality(AccumulatedBefore(n)) = TitlePageCap
          /\ \E m \in (n + 1)..Len(trace) : trace[m].outcome = "scene_heading"
    /\ state.sceneCount > 0
    /\ document[1].titlePage = None

(***************************************************************************)
(* C29: the end-of-input reclassification of the buffered lines gives      *)
(* every buffered line the kind that the BODY checks of the line loop,     *)
(* without the scene-heading and note checks, give to the same lines from  *)
(* a fresh state.                                                          *)
(***************************************************************************)
\* the BODY part of the loop body, scene-heading and note checks left out
BodyStepReduced(r, titleLine, o, n) ==
    LET trimmedLine == TrimTable[titleLine]
    IN  IF trimmedLine = <<>>
        THEN SkipEmptyLine(r, n)
        ELSE IF isTransition(trimmedLine, o.strictMode)
        THEN [Push(r, "transition", trimmedLine, n) EXCEPT
                 !.state.expectingDialogue = FALSE,
                 !.state.currentElementType = "transition"]
        ELSE DetectDialogueBlock(r, trimmedLine, o, n)

RECURSIVE BodyLoopReduced(_, _, _, _)
BodyLoopReduced(r, from, o, k) ==
    IF k > Len(from) THEN r
    ELSE BodyLoopReduced(BodyStepReduced(r, Trimmed(from[k]), o, from[k]),
                         from, o, k + 1)

\* the indices of the lines in the buffer, in buffer order
RECURSIVE AccumulatedUpTo(_)
AccumulatedUpTo(n) ==
    IF n = 0 THEN <<>>
    ELSE IF Accumulated(n) THEN Append(AccumulatedUpTo(n - 1), n)
    ELSE AccumulatedUpTo(n - 1)

\* the parse ended in title-page mode with lines in the buffer
Reclassified ==
    /\ Returned
    /\ state.inTitlePage
    /\ state.sceneCount = 0
    /\ AccumulatedUpTo(Len(trace)) # <<>>

C29_ReparseIsReducedBodyRun ==
    Reclassified =>
        LET from == AccumulatedUpTo(Len(trace))
            body == BodyLoopReduced([ state |-> ReparsedState,
                                      elements |-> <<>>, origin |-> <<>>,
                                      bufOrigin |-> <<>> ], from, opts, 1)
        IN  \A k \in DOMAIN from :
                { elements[e].type : e \in ElementsOf(from[k]) }
                  = { body.elements[e].type :
                        e \in {x \in DOMAIN body.elements :
                                  body.origin[x].line = from[k]} }

(***************************************************************************)
(* C30: the scene count is incremented exactly once per line classified as *)
(* a scene heading, the one that ends title-page accumulation included: at *)
(* the end of every parse sceneCount equals the number of scene_heading    *)
(* elements emitted.                                                       *)
(***************************************************************************)
SceneHeadingElements ==
    {e \in DOMAIN elements : elements[e].type = "scene_heading"}

C30_SceneCountIsHeadingCount ==
    Returned => state.sceneCount = Cardinality(SceneHeadingElements)

(***************************************************************************)
(* C31: in every state of the main pass currentElementType is the kind of  *)
(* the most recently emitted element, and is null only while no element    *)
(* has been emitted, for every element kind the parser emits.              *)
(***************************************************************************)
InMainPass == pc = "main"

C31_CurrentKindIsLastEmitted ==
    InMainPass =>
        IF elements = <<>> THEN state.currentElementType = "null"
        ELSE state.currentElementType = elements[Len(elements)].type

\* C31 as the code has it: currentElementType is the kind of the most recent
\* element among those the classification sets it for; page_break, note and
\* parenthetical elements leave it as it was
SettingKinds == {"scene_heading", "transition", "character", "dialogue", "action"}

SettingElements == {e \in DOMAIN elements : elements[e].type \in SettingKinds}

C31_CurrentKindIsLastClassified ==
    InMainPass =>
        IF SettingElements = {} THEN state.currentElementType = "null"
        ELSE LET last == CHOOSE e \in SettingElements :
                             \A f \in SettingElements : f <= e
             IN  state.currentElementType = elements[last].type

\* a parenthetical is the last element and the kind is still character
C31_Witness ==
    /\ InMainPass
    /\ Len(elements) >= 3
    /\ elements[Len(elements)].type = "parenthetical"
    /\ elements[Len(elements) - 1].type = "character"
    /\ state.currentElementType = "character"

(***************************************************************************)
(* C32: in strict mode the elements never hold two adjacent character      *)
(* elements: a line that passes the character pattern directly after a     *)
(* character element is emitted as dialogue instead.                       *)
(***************************************************************************)
NoAdjacentCharacters ==
    \A e \in 2..Len(elements) :
        ~(elements[e - 1].type = "character" /\ elements[e].type = "character")

\* element e holds a text that isCharacterName accepts but for the kind
\* before it, and the element before it is a character
CueAfterCharacter(e) ==
    /\ e >= 2
    /\ elements[e - 1].type = "character"
    /\ isCharacterName(elements[e].text, InitialState, TRUE)

Evaluated == pc = "evaluated"

C33_StrictOnlyNarrows ==
    Evaluated =>
        \A p \in {"isSceneHeading", "isTransition", "isCharacterName"} :
            verdicts[TRUE][p] => verdicts[FALSE][p]

\* a line on which the two modes differ, and one that both accept
C33_Witness ==
    /\ Evaluated
    /\ allLines = <<SceneCommaLine>>
    /\ verdicts[FALSE]["isSceneHeading"]
    /\ ~verdicts[TRUE]["isSceneHeading"]
    /\ ~verdicts[TRUE]["isCharacterName"]

(***************************************************************************)
(* C34: for every finite input and option set parseScreenplay reaches the  *)
(* end of input and returns a document, with no state to get stuck in;     *)
(* once the parser has left title-page accumulation it never re-enters it; *)
(* each line is processed once in the main pass and at most once more in   *)
(* the end-of-input reclassification.                                      *)
(***************************************************************************)
\* a step of the main pass consumes exactly the next line
ConsumesOneLine ==
    (pc = "main" /\ pc' = "main") =>
        /\ Len(allLines') = Len(allLines) + 1
        /\ Len(trace') = Len(trace) + 1
        /\ SubSeq(allLines', 1, Len(allLines)) = allLines

StaysOutOfTitlePage == ~state.inTitlePage => ~state'.inTitlePage

\* no line has more than one element, and the trace has one entry per line
ProcessedOnce ==
    /\ Len(trace) = Len(allLines)
    /\ \A i \in DOMAIN allLines : Cardinality(ElementsOf(i)) <= 1
    /\ Returned => document # None /\ document[1].elements = elements

C34_TerminatesAcyclic ==
    /\ <>Returned
    /\ [][ConsumesOneLine /\ StaysOutOfTitlePage]_vars
    /\ []ProcessedOnce

\* a parse that returned after reclassifying the lines it had collected
C34_Witness ==
    /\ Returned
    /\ Reclassified
    /\ Len(AccumulatedUpTo(Len(trace))) >= 3
    /\ Len(elements) >= 2

(***************************************************************************)
(* C35: without --continue-on-error the batch command aborts at the first  *)
(* file whose conversion or write fails: the process exits with code 1 and *)
(* no later matched file is converted or written; files are processed      *)
(* strictly one at a time, in the matched order.                           *)
(***************************************************************************)
BatchExited == pc = "batch" /\ batch.pc = "exited"

\* the file numbers of the log entries, in the order they were logged
LoggedFiles == [k \in DOMAIN batch.log |-> batch.log[k][2]]

\* the files are taken in the matched order, one at a time: the log starts at
\* file 1, never goes back, never skips, and a file is written only directly
\* after its own conversion
OneAtATimeInOrder ==
    \A k \in DOMAIN batch.log :
       /\ batch.log[k][2] \in DOMAIN batch.validFiles
       /\ batch.log[k][1] = "convert" =>
             batch.log[k][2] = (IF k = 1 THEN 1 ELSE batch.log[k - 1][2] + 1)
       /\ batch.log[k][1] = "write" =>
             k > 1 /\ batch.log[k - 1] = <<"convert", batch.log[k][2]>>

\* a failure without the option ends the run at once, with code 1, and the
\* failed file is the last one touched
AbortsAtFirstFailure ==
    (pc = "batch" /\ ~batch.continueOnError /\ batch.results.failed > 0) =>
       /\ batch.pc = "exited"
       /\ batch.exitCode = 1
       /\ batch.results.failed = 1
       /\ batch.summary = None
       /\ ~batch.results.files[Len(batch.results.files)].success
       /\ \A k \in DOMAIN batch.log : batch.log[k][2] <= Len(batch.results.files)
       /\ batch.log[Len(batch.log)][2] = Len(batch.results.files)

\* after the exit nothing is converted or written
NothingAfterExit == (pc = "batch" /\ batch.pc = "exited") => batch' = batch

C35_AbortsAtFirstFailure ==
    /\ [](AbortsAtFirstFailure /\ OneAtATimeInOrder)
    /\ [][NothingAfterExit]_vars

C35_Witness ==
    /\ BatchExited
    /\ ~batch.continueOnError
    /\ Len(batch.validFiles) = 3
    /\ batch.results.succeeded = 1
    /\ batch.results.failed = 1
    /\ batch.log = <<<<"convert", 1>>, <<"write", 1>>, <<"convert", 2>>,
                     <<"write", 2>>>>

(***************************************************************************)
(* C36: with --continue-on-error every matched file is attempted exactly   *)
(* once, in the matched order, whatever earlier files did; when the        *)
(* summary is printed, succeeded + failed equals the number of matched     *)
(* files and the exit code is 1 if and only if at least one file failed,   *)
(* 0 otherwise.  A run over at least one matched file always reaches the   *)
(* summary.                                                                *)
(***************************************************************************)
SummaryPrinted == pc = "batch" /\ batch.summary # None

\* the files whose conversion was attempted, in the order of the attempts
Attempted ==
    LET converts == SelectSeq(batch.log, LAMBDA e : e[1] = "convert")
    IN [k \in DOMAIN converts |-> converts[k][2]]

SummaryAccountsForEveryFile ==
    (SummaryPrinted /\ batch.continueOnError) =>
       /\ Attempted = [k \in 1..Len(batch.validFiles) |-> k]
       /\ Len(batch.results.files) = Len(batch.validFiles)
       /\ \A k \in DOMAIN batch.validFiles :
             batch.results.files[k].path = batch.validFiles[k]
       /\ batch.summary.succeeded + batch.summary.failed = Len(batch.validFiles)
       /\ batch.summary.total = Len(batch.validFiles)
       /\ batch.summary.failed =
             Cardinality({k \in DOMAIN batch.results.files :
                             ~batch.results.files[k].success})
       /\ batch.exitCode \in {0, 1}
       /\ batch.exitCode = 1 <=> batch.summary.failed > 0

C36_EveryFileAttemptedOnce ==
    /\ []SummaryAccountsForEveryFile
    /\ (pc = "batch" /\ batch.continueOnError /\ batch.pc = "convert")
          ~> SummaryPrinted

C36_Witness ==
    /\ SummaryPrinted
    /\ batch.continueOnError
    /\ Len(batch.validFiles) = 3
    /\ ~batch.results.files[1].success
    /\ batch.results.files[2].success
    /\ ~batch.results.files[3].success
    /\ batch.log[Len(batch.log)] = <<"write", 3>>
    /\ batch.exitCode = 1

(***************************************************************************)
(* C39: in a batch run, every file counted as succeeded has, when the run  *)
(* ends, an output file holding its own rendered text: no two matched      *)
(* input files are written to the same output path, so no successful       *)
(* output is overwritten by another file's output.                         *)
(***************************************************************************)
OutputPathOf(k) == generateOutputPath(batch.validFiles[k], batch.outputDir)

HoldsOwnText(k) ==
    /\ OutputPathOf(k) \in DOMAIN batch.disk
    /\ batch.disk[OutputPathOf(k)].whole
    /\ batch.disk[OutputPathOf(k)].text = batch.rendered[k]

C39_SucceededOutputsKept ==
    BatchExited =>
       /\ \A k \in DOMAIN batch.results.files :
             batch.results.files[k].success => HoldsOwnText(k)
       /\ \A j, k \in DOMAIN batch.results.files :
             (j # k /\ batch.results.files[j].success
                    /\ batch.results.files[k].success)
                => OutputPathOf(j) # OutputPathOf(k)

(***************************************************************************)
(* C37: readPDF releases the PDF parser on every path: whenever the parser *)
(* object has been constructed, destroy is called exactly once before      *)
(* readPDF settles, whether text extraction succeeds or throws, and it is  *)
(* never called when reading the file failed before the parser was         *)
(* constructed.  Every call of readPDF settles.                            *)
(***************************************************************************)
ReaderSettled == pc = "reader" /\ reader.pc = "settled"

DestroyedOnceIffConstructed ==
    pc = "reader" =>
       /\ reader.destroyCalls <= 1
       /\ reader.destroyCalls = 1 => reader.constructed
       /\ reader.pc = "settled" =>
             reader.destroyCalls = (IF reader.constructed THEN 1 ELSE 0)
       /\ reader.thrownAt \in {"readFile", "construct"} => reader.destroyCalls = 0

\* nothing runs after the promise has settled
SettledIsFinal == ReaderSettled => reader' = reader

C37_ParserReleasedOnEveryPath ==
    /\ []DestroyedOnceIffConstructed
    /\ [][SettledIsFinal]_vars
    /\ <>ReaderSettled

C37_Witness ==
    /\ ReaderSettled
    /\ reader.thrownAt = "getText"
    /\ reader.completion = "throw"
    /\ reader.value.isError
    /\ reader.destroyCalls = 1

(***************************************************************************)
(* C38: in every reachable state in which the parser is still in           *)
(* title-page accumulation (inTitlePage = true), sceneCount is 0,          *)
(* expectingDialogue is false, and every element emitted so far is a note  *)
(* or a page_break.                                                        *)
(***************************************************************************)
NothingClassifiedYet ==
    /\ state.sceneCount = 0
    /\ ~state.expectingDialogue
    /\ \A e \in DOMAIN elements : elements[e].type \in {"note", "page_break"}

\* as stated, for every state whose inTitlePage flag is true
C38_TitlePageStateUntouched == state.inTitlePage => NothingClassifiedYet

\* The statement holds in the main pass.  The reclassification after the
\* last line emits character, dialogue, transition and action elements and
\* never resets the flag, so the returned state still has inTitlePage true.
C38_TitlePageStateUntouchedInMainPass ==
    /\ (InMainPass /\ state.inTitlePage) => NothingClassifiedYet
    /\ (Returned /\ state.inTitlePage) =>
          /\ state.sceneCount = 0
          /\ ~state.expectingDialogue
          /\ state.titlePageLines = <<>>

C38_Witness ==
    /\ InMainPass
    /\ state.inTitlePage
    /\ Len(state.titlePageLines) >= 2
    /\ \E e \in DOMAIN elements : elements[e].type = "note"
    /\ \E e \in DOMAIN elements : elements[e].type = "page_break"

====
